---- MODULE Spec2Model ----
(***************************************************************************)
(* State-machine model of the MCP protocol client                          *)
(* (src/tools/mcp/src/client/mcp_client.py, models/mcp_messages.py).       *)
(*                                                                         *)
(* One MCPClient instance, one lifecycle task that runs connect() and      *)
(* close(), two caller tasks that run call_tool() and list_tools(), one    *)
(* drain task (_listen_for_responses) per SSE session, and the server,     *)
(* which answers POSTs and pushes Responses over the SSE stream.           *)
(* Every await of the code is a place where the other tasks may run; the   *)
(* code between two awaits is one action.                                  *)
(*                                                                         *)
(* Spec      the client from its construction, through connect and close   *)
(* SpecCalls a connected client with two concurrent callers                *)
(* SpecMap   the mapping of a Response to the outcome of call_tool         *)
(* SpecGood  connect, then call_tool, with a server that answers in time   *)
(* SpecTime  one call_tool followed in wall-clock time                     *)
(* SpecBackoff  ReconnectingSSEClient.connect_with_retry                   *)
(* SpecSse   SSEClient.connect, listen failing, close (sse_client.py)      *)
(* SpecReconnect  ReconnectingSSEClient.listen_with_reconnect              *)
(* SpecWait  _wait_for_sse_response over a queue of its own                *)
(* SpecListen  _listen_for_responses over a stream of its own              *)
(* SpecTimeFair  SpecTime with the event loop's timers firing              *)
(* SpecSync  MCPClient.call_tool_sync, with close() between calls          *)
(* SpecHealth  the liveness bookkeeping of an SSEClient in time            *)
(* SpecHealthFair  SpecHealth with the clock advancing                     *)
(***************************************************************************)
EXTENDS Naturals, Sequences, FiniteSets

VARIABLES
    request_id,      \* MCPClient._request_id
    sse_client,      \* MCPClient._sse_client: "none", "new", "connected", "closed"
    http_client,     \* MCPClient._http_client is not None
    initialized,     \* MCPClient._initialized
    tools_cache,     \* MCPClient._tools_cache: "None" or a decoded tools list
    response_queue,  \* MCPClient._response_queue (the holding area), FIFO
    listener_task,   \* MCPClient._listener_task: 0 (None) or the session it drains
    nsess,           \* SSE sessions opened so far by this client
    cur,             \* session of the current _sse_client (0: none)
    streams,         \* per session: events sent by the server, not yet read
    drains,          \* sessions whose drain task is running
    alive,           \* sessions whose SSE stream is open
    owed,            \* requests the server accepted and has not answered yet
    task,            \* the tasks: operation, position, locals
    last,            \* the operation that ends in this step, and its outcome
    allocated,       \* history: the ids handed out, in order
    lastList,        \* history: what the last list_tools(use_cache=True) returned
    mapIn, mapOut,   \* input and outcome of the Response-to-outcome mapping
    now, timed,      \* wall clock (s), and one call_tool followed in time
    retry,           \* one ReconnectingSSEClient.connect_with_retry
    sse,             \* one SSEClient (sse_client.py)
    lwr,             \* one ReconnectingSSEClient.listen_with_reconnect
    waiter,          \* one _wait_for_sse_response over a given queue
    listen,          \* one _listen_for_responses over a given stream
    sync,            \* the call_tool_sync calls of one task
    health           \* one SSEClient followed in time: liveness bookkeeping

vars == <<request_id, sse_client, http_client, initialized, tools_cache,
          response_queue, listener_task, nsess, cur, streams, drains, alive,
          owed, task, last, allocated, lastList, mapIn, mapOut,
          now, timed, retry, sse, lwr, waiter, listen, sync, health>>

ids    == <<request_id, allocated>>
conn   == <<sse_client, http_client, initialized, listener_task, nsess, cur>>
server == <<streams, drains, alive, owed>>
loops  == <<lwr, waiter, listen, sync, health>>
mapv   == <<mapIn, mapOut, now, timed, retry, sse, loops>>
mcp    == <<ids, conn, server, tools_cache, response_queue, task, last, lastList>>

----------------------------------------------------------------------------
(* Bounds of the model *)

MaxId   == 3     \* request ids handed out in one run
MaxSess == 2     \* SSE sessions opened in one run

Ids      == 1..MaxId
Sessions == 1..MaxSess

Life    == "life"
Callers == {"a", "b"}
Tasks   == {Life} \cup Callers

ToolNames == {"x", "y"}

----------------------------------------------------------------------------
(* JSON-RPC messages: models/mcp_messages.py *)

\* Characters of an error message.  "NL" is a newline, "BS" a backslash.
Alphabet == {"n", "NL", "BS"}
MaxMsg   == 2
Msgs     == UNION {[1..n -> Alphabet] : n \in 0..MaxMsg}

\* MCPError: code, message (data is absent).
Codes     == {"-32601"}
MCPErrors == [code : Codes, message : Msgs]

\* MCPResponse.result as the code distinguishes it:
\*   "None"  absent or null                    (falsy, no dict)
\*   "{}"    the empty object                  (falsy, a dict)
\*   "str"   a non-empty value that is no dict (truthy, no dict)
\*   "t1","t2" objects that decode             (truthy, dict)
\*   "bad"   an object whose fields have the wrong type, e.g. content: 5
ResultVals == {"None", "{}", "str", "t1", "t2", "bad"}

Truthy(r)  == r \notin {"None", "{}"}
IsDict(r)  == r \in {"{}", "t1", "t2", "bad"}
Decodes(r) == r # "bad"

\* MCPResponse: result, error, id.  error is NoError (None) or an MCPError.
NoError == [code |-> "", message |-> <<>>]
Response(id, result, error) == [id |-> id, result |-> result, error |-> error]

\* (is_error decided by the absence of a result)
is_errorByResult(resp) == resp.result = "None"

\* MCPResponse.is_error
is_error(resp) == resp.error # NoError

\* str.__repr__ of a message: quoted, newline and backslash escaped.
RECURSIVE Escape(_)
Escape(s) ==
    IF s = <<>> THEN <<>>
    ELSE (CASE Head(s) = "NL" -> <<"BS", "n">>
            [] Head(s) = "BS" -> <<"BS", "BS">>
            [] OTHER          -> <<Head(s)>>) \o Escape(Tail(s))

Repr(s) == <<"'">> \o Escape(s) \o <<"'">>

\* str(MCPError): pydantic renders "code=<code> message=<repr> data=None".
StrError(e) == <<"code=", e.code, " message=">> \o Repr(e.message) \o <<" data=None">>

\* needle occurs in hay as a contiguous run of characters
Contains(hay, needle) ==
    \E i \in 0..(Len(hay) - Len(needle)) :
        \A j \in 1..Len(needle) : hay[i + j] = needle[j]

----------------------------------------------------------------------------
(* Outcomes.  An optional string is a set: {} is None, {s} is the string s. *)

Outcome(st, tool, error, rid, val, sent) ==
    [st |-> st, tool |-> tool, error |-> error, rid |-> rid, val |-> val, sent |-> sent]

NoOutcome == Outcome("none", "", {}, 0, "None", FALSE)

\* Exceptions: class and text (str(e)).  These classes derive from Exception.
Exc(cls, text) == [cls |-> cls, text |-> text]
ExceptionClasses == {"RuntimeError", "TimeoutError", "HTTPStatusError",
                     "TransportError", "ValueError"}

TimeoutText(tmo) == <<"Timeout after ", IF tmo THEN "T" ELSE "None", "s">>

\* call_tool, lines 343-362: the outcome for a Response.
\* get_tool_result() decodes a truthy dict and raises when it does not decode;
\* the raise lands in call_tool's "except Exception".
CallToolOutcome(name, resp) ==
    IF is_error(resp)
    THEN Outcome("fail", name, {StrError(resp.error)}, resp.id, "None", TRUE)
    ELSE IF Truthy(resp.result) /\ IsDict(resp.result) /\ ~Decodes(resp.result)
         THEN Outcome("fail", name, {<<"decode error">>}, resp.id, "None", TRUE)
         ELSE Outcome("ok", name, {}, resp.id,
                      IF Truthy(resp.result) /\ IsDict(resp.result)
                      THEN resp.result ELSE "None", TRUE)

\* call_tool, lines 364-379: the handlers.  asyncio.TimeoutError first, then
\* Exception; anything else leaves call_tool.
CallToolCatch(name, tmo, exc) ==
    CASE exc.cls = "TimeoutError" ->
            Outcome("fail", name, {TimeoutText(tmo)}, 0, "None", TRUE)
      [] exc.cls \in ExceptionClasses ->
            Outcome("fail", name, {exc.text}, 0, "None", TRUE)
      [] OTHER ->
            Outcome("raised", name, {exc.text}, 0, "None", TRUE)

\* list_tools, lines 304-312: the outcome for a Response; nothing is caught.
ListToolsOutcome(resp) ==
    IF is_error(resp)
    THEN Outcome("raised", "", {<<"List tools failed">>}, resp.id, "None", TRUE)
    ELSE IF Truthy(resp.result)
         THEN IF IsDict(resp.result) /\ Decodes(resp.result)
              THEN Outcome("ret", "", {}, resp.id, resp.result, TRUE)
              ELSE Outcome("raised", "", {<<"decode error">>}, resp.id, "None", TRUE)
         ELSE Outcome("ret", "", {}, resp.id, "[]", TRUE)

\* list_tools, lines 307-310: the cache after a Response.
ListToolsCache(cache, resp) ==
    IF ~is_error(resp) /\ Truthy(resp.result) /\ IsDict(resp.result) /\ Decodes(resp.result)
    THEN resp.result
    ELSE cache

\* (the not-connected check raising the class that call_tool reports as a
\* timeout)
NotConnectedAsTimeout == Exc("TimeoutError", <<"Not connected">>)

\* _send_request, lines 207-208
NotConnected == Exc("RuntimeError", <<"Not connected">>)

\* _initialize, lines 156-157
InitializeFailed == Exc("RuntimeError", <<"Initialize failed">>)

\* list_tools has no handler: an exception of _send_request leaves it.
\* (sent: the request was POSTed, which the not-connected check precedes.)
ListToolsCatch(exc) == Outcome("raised", "", {exc.text}, 0, "None", exc # NotConnected)

\* connect, lines 115-117: every Exception becomes False.
ConnectCatch(exc) == Outcome("false", "", {exc.text}, 0, "None", TRUE)

----------------------------------------------------------------------------
(* The client: state after MCPClient.__init__, lines 59-79 *)

\* No list_tools(use_cache=True) has returned a list since the last connect
\* or close.
NoList == "none"

\* A task: the operation it runs (op), where it stands (pc), the request id it
\* allocated, its argument (tool name; "cache"/"nocache" for list_tools),
\* whether call_tool got a timeout, the session its POST went to, the
\* Responses _wait_for_sse_response has set aside (pending_responses), and
\* what the last list_tools(use_cache=True) had returned when it started.
NewTask(op, pc, id, arg, tmo, sess, prev) ==
    [op |-> op, pc |-> pc, id |-> id, arg |-> arg, tmo |-> tmo, sess |-> sess,
     pending |-> <<>>, prev |-> prev]

IdleTask == NewTask("none", "idle", 0, "", FALSE, 0, NoList)

\* No exception: the operation returned from its normal path.
NoExc == Exc("", <<>>)

\* An operation that ends: what ran with which id and arguments, where it
\* stood (at), what list_tools(use_cache=True) had returned last when it
\* started (prev), the exception that ended its request (exc), the Responses
\* it had set aside and did not put back (dropped), and the outcome.  It is
\* visible in the state its last step leads to.
Ended(tk, exc, dropped, outc) ==
    [op |-> tk.op, id |-> tk.id, arg |-> tk.arg, tmo |-> tk.tmo, at |-> tk.pc,
     prev |-> tk.prev, exc |-> exc, dropped |-> dropped, out |-> outc]

NoEnded == Ended(IdleTask, NoExc, {}, NoOutcome)

\* No Response is being mapped.
NoMapIn == [name |-> "", resp |-> Response(0, "None", NoError)]

\* No call_tool is followed in time.
NoTimed == [pc |-> "idle", T |-> 0, t0 |-> 0, w0 |-> 0, out |-> "none",
            at |-> "idle", end |-> 0]

\* No connect_with_retry is running.
NoRetry == [pc |-> "none", base |-> 0, mult |-> 0, max |-> 0, max_retries |-> 0,
            delay |-> 0, attempt |-> 0, before |-> 0, reconnect_count |-> 0,
            slept |-> <<>>, ret |-> "none"]

\* SSEClient.__init__, sse_client.py 21-48 (on_error: a callback was given;
\* events, reported: what the connect() calls so far have read and reported).
NoSse == [pc |-> "idle", op |-> "none", session |-> FALSE,
          event_source |-> FALSE, is_connected |-> FALSE,
          info |-> "None", on_error |-> FALSE, events |-> 0,
          reported |-> 0, ret |-> "none", why |-> "none"]

\* No listen_with_reconnect is running.
NoLwr == [pc |-> "none", max_retries |-> 0, is_connected |-> FALSE,
          session |-> 0, stream |-> 0, nstreams |-> 0, read |-> 0,
          ended |-> FALSE, attempts |-> 0, total |-> 0, lost |-> 0,
          message_queue |-> <<>>, yielded |-> <<>>, out |-> "none"]

\* No stand-alone wait and no stand-alone drain loop is running.
NoWaiter == [pc |-> "none", request_id |-> 0, queue |-> <<>>, arrived |-> 0,
             pending_responses |-> <<>>, ret |-> "none"]
NoListen == [pc |-> "none", seen |-> <<>>, queue |-> <<>>, why |-> "none"]

\* No call_tool_sync has been called.
NoSync == [pc |-> "none", tool |-> "", was |-> FALSE, connects |-> 0,
           sent |-> 0, ret |-> "none", error |-> "", calls |-> 0]

\* No SSEClient is followed in time.  SSEClient.__init__, sse_client.py
\* 44-46: _is_connected False, _last_event_time None: the empty set, a time t
\* being {t} (consumed: when an event was last read from the stream by any
\* consumer; hb: one wait_for_heartbeat; ok: what check_connection_health
\* returns in this step).
NoHealth == [is_connected |-> FALSE, last_event_time |-> {},
             consumed |-> {}, hb |-> "none", start |-> 0,
             timeout |-> 0, ret |-> "none", ok |-> "none"]

LoopsIdle ==
    /\ lwr = NoLwr /\ waiter = NoWaiter /\ listen = NoListen
    /\ sync = NoSync /\ health = NoHealth

\* The client's fields and tasks after MCPClient.__init__, lines 59-79.
ClientFresh ==
    /\ request_id = 0
    /\ sse_client = "none"
    /\ http_client = FALSE
    /\ initialized = FALSE
    /\ tools_cache = "None"
    /\ response_queue = <<>>
    /\ listener_task = 0
    /\ nsess = 0
    /\ cur = 0
    /\ streams = [s \in Sessions |-> <<>>]
    /\ drains = {}
    /\ alive = {}
    /\ owed = {}
    /\ task = [t \in Tasks |-> IdleTask]
    /\ last = NoEnded
    /\ allocated = <<>>
    /\ lastList = NoList
    /\ mapIn = NoMapIn
    /\ mapOut = NoOutcome

Init ==
    /\ request_id = 0
    /\ sse_client = "none"
    /\ http_client = FALSE
    /\ initialized = FALSE
    /\ tools_cache = "None"
    /\ response_queue = <<>>
    /\ listener_task = 0
    /\ nsess = 0
    /\ cur = 0
    /\ streams = [s \in Sessions |-> <<>>]
    /\ drains = {}
    /\ alive = {}
    /\ owed = {}
    /\ task = [t \in Tasks |-> IdleTask]
    /\ last = NoEnded
    /\ allocated = <<>>
    /\ lastList = NoList
    /\ mapIn = NoMapIn
    /\ mapOut = NoOutcome
    /\ now = 0
    /\ timed = NoTimed
    /\ retry = NoRetry
    /\ sse = NoSse
    /\ LoopsIdle

\* (a counter that is incremented where the id is taken and again where it
\* is returned)
NextRequestIdSkips(rid) == rid + 2

\* _next_request_id, lines 81-84
NextRequestId(rid) == rid + 1

\* (line 273 as "request_id is None or ..." alone would read for a waiter
\* called without an id: any Response is taken)
MatchesAny(rid, resp) == resp.id \in Ids

\* _wait_for_sse_response, line 273: the Response is the waiter's own
Matches(rid, resp) == resp.id = rid

Range(q) == {q[i] : i \in 1..Len(q)}

\* The operation that task record tk describes ends with outcome outc.
Complete(t, tk, exc, dropped, outc) ==
    /\ task' = [task EXCEPT ![t] = IdleTask]
    /\ last' = Ended(tk, exc, dropped, outc)
    /\ lastList' = IF tk.op = "list"
                   THEN IF tk.arg = "cache" /\ outc.st = "ret" THEN outc.val ELSE NoList
                   ELSE lastList

\* The handler an exception of _send_request meets in the operation:
\* call_tool 364-379, list_tools none, connect 115-117.
Catch(op, name, tmo, exc) ==
    CASE op = "call" -> CallToolCatch(name, tmo, exc)
      [] op = "list" -> ListToolsCatch(exc)
      [] OTHER       -> ConnectCatch(exc)

Raise(t, dropped, exc) ==
    /\ Complete(t, task[t], exc, dropped, Catch(task[t].op, task[t].arg, task[t].tmo, exc))
    /\ UNCHANGED <<tools_cache, initialized>>

\* _send_request returned resp to the operation:
\* call_tool 343-362, list_tools 304-312, _initialize 156-161.
Return(t, resp) ==
    CASE task[t].op = "call" ->
            /\ Complete(t, task[t], NoExc, {}, CallToolOutcome(task[t].arg, resp))
            /\ UNCHANGED <<tools_cache, initialized>>
      [] task[t].op = "list" ->
            /\ tools_cache' = ListToolsCache(tools_cache, resp)
            /\ Complete(t, task[t], NoExc, {}, ListToolsOutcome(resp))
            /\ UNCHANGED initialized
      [] OTHER ->
            /\ IF is_error(resp)
               THEN Complete(t, task[t], InitializeFailed, {},
                        ConnectCatch(InitializeFailed))
               ELSE /\ task' = [task EXCEPT ![t].pc = "notify", ![t].pending = <<>>]
                    /\ last' = NoEnded /\ UNCHANGED lastList
            /\ UNCHANGED <<tools_cache, initialized>>

----------------------------------------------------------------------------
(* call_tool and list_tools up to the POST *)

\* call_tool 331-341 with _send_request 207-222: a fresh id, the request, the
\* not-connected check, the request socket, the POST sent to the session's
\* message endpoint.
StartCall(t, name, tmo) ==
    /\ task[t].pc = "idle"
    /\ request_id < MaxId
    /\ request_id' = NextRequestId(request_id)
    /\ allocated' = Append(allocated, request_id')
    /\ IF sse_client = "none"
       THEN /\ Complete(t, NewTask("call", "idle", request_id', name, tmo, 0, NoList),
                        NotConnected, {},
                        CallToolCatch(name, tmo, NotConnected))
            /\ UNCHANGED http_client
       ELSE /\ task' = [task EXCEPT ![t] =
                   NewTask("call", "post", request_id', name, tmo, cur, NoList)]
            /\ http_client' = TRUE
            /\ last' = NoEnded /\ UNCHANGED lastList
    /\ UNCHANGED <<sse_client, initialized, listener_task, nsess, cur,
                   tools_cache, response_queue, server, mapv>>

\* list_tools 298-299: the cached list, no request.
ListCached(t) ==
    /\ task[t].pc = "idle"
    /\ tools_cache # "None"
    /\ Complete(t, NewTask("list", "idle", 0, "cache", FALSE, 0, lastList), NoExc, {},
                Outcome("ret", "", {}, 0, tools_cache, FALSE))
    /\ UNCHANGED <<ids, conn, tools_cache, response_queue, server, mapv>>

\* list_tools 301-302 with _send_request 207-222.
StartList(t, uc) ==
    /\ task[t].pc = "idle"
    /\ ~(uc /\ tools_cache # "None")
    /\ request_id < MaxId
    /\ request_id' = NextRequestId(request_id)
    /\ allocated' = Append(allocated, request_id')
    /\ LET arg == IF uc THEN "cache" ELSE "nocache" IN
       IF sse_client = "none"
       THEN /\ Complete(t, NewTask("list", "idle", request_id', arg, FALSE, 0, lastList),
                        NotConnected, {},
                        ListToolsCatch(NotConnected))
            /\ UNCHANGED http_client
       ELSE /\ task' = [task EXCEPT ![t] =
                   NewTask("list", "post", request_id', arg, FALSE, cur, lastList)]
            /\ http_client' = TRUE
            /\ last' = NoEnded /\ UNCHANGED lastList
    /\ UNCHANGED <<sse_client, initialized, listener_task, nsess, cur,
                   tools_cache, response_queue, server, mapv>>

----------------------------------------------------------------------------
(* The server's answer to a POST: _send_request 217-243 *)

ServerError == [code |-> "-32601", message |-> <<"n">>]

\* What the server may answer, by the operation that asked.
Bodies(op) ==
    CASE op = "call" ->
            {<<"t1", NoError>>, <<"bad", NoError>>, <<"None", ServerError>>}
      [] op = "list" ->
            {<<"t1", NoError>>, <<"t2", NoError>>, <<"{}", NoError>>,
             <<"None", ServerError>>}
      [] OTHER ->
            {<<"t1", NoError>>, <<"None", ServerError>>}

\* What a POST can raise: an HTTP error status (raise_for_status), a transport
\* exception (its text may be empty, as for a read timeout), a body that is
\* no JSON.
PostExcs == {Exc("HTTPStatusError", <<"http status">>),
             Exc("TransportError", <<"transport">>),
             Exc("TransportError", <<>>),
             Exc("ValueError", <<"no json">>)}

\* Status 200 with a body: lines 230-236.  The body's id is not compared with
\* the request's.
PostBody(t, body, rid) ==
    /\ task[t].pc = "post"
    /\ Return(t, Response(rid, body[1], body[2]))
    /\ UNCHANGED <<ids, sse_client, http_client, listener_task, nsess, cur,
                   response_queue, server, mapv>>

\* (an error status that is not raised, taken as accepted: the wait starts)
PostFailWaits(t, exc) ==
    /\ task[t].pc = "post"
    /\ task' = [task EXCEPT ![t].pc = "wait"]
    /\ last' = NoEnded
    /\ UNCHANGED <<ids, conn, tools_cache, response_queue, server, lastList, mapv>>

\* The POST raises: lines 238-243 re-raise to the operation.
PostFail(t, exc) ==
    /\ task[t].pc = "post"
    /\ Raise(t, {}, exc)
    /\ UNCHANGED <<ids, sse_client, http_client, listener_task, nsess, cur,
                   response_queue, server, mapv>>

\* The server accepts the request of t for an answer over the stream of the
\* session the POST named, if that stream is open.
ServerAccept(t) ==
    /\ task[t].pc = "post"
    /\ task' = [task EXCEPT ![t].pc = "posted"]
    /\ owed' = IF task[t].sess \in alive
               THEN owed \cup {[id |-> task[t].id, sess |-> task[t].sess, op |-> task[t].op]}
               ELSE owed
    /\ last' = NoEnded
    /\ UNCHANGED <<ids, conn, tools_cache, response_queue, streams, drains,
                   alive, lastList, mapv>>

\* Status 202, or 200 with an empty body: lines 226-233, and the first pass
\* of _wait_for_sse_response 258-264, on which no time has passed.
Post202(t) ==
    /\ task[t].pc = "posted"
    /\ task' = [task EXCEPT ![t].pc = "wait"]
    /\ last' = NoEnded
    /\ UNCHANGED <<ids, conn, tools_cache, response_queue, server, lastList, mapv>>

----------------------------------------------------------------------------
(* _wait_for_sse_response, lines 258-286 *)

\* Lines 264 and 286: the wait's own deadline (30 s) has passed.
WaitTimeout == Exc("TimeoutError", <<"Timeout waiting for response">>)

\* call_tool 338: what asyncio.timeout(timeout) raises at the end of its
\* block when it has cancelled the task in it; it carries no text.
CallTimeout == Exc("TimeoutError", <<>>)

\* "wait": suspended in the get of line 267.  "check": at line 262 after a
\* Response was set aside; with time left the task goes on to line 267.
Waiting(t) == task[t].pc \in {"wait", "check"}

\* Lines 267-280: the next Response of the queue.  The waiter's own is
\* returned after the set-aside ones are put back; another is set aside.
\* (body: the result and error the server gave the Response; see ServerEmit.)
Take(t, body) ==
    /\ Waiting(t)
    /\ response_queue # <<>>
    /\ LET resp == Head(response_queue) IN
       IF Matches(task[t].id, resp)
       THEN /\ response_queue' = Tail(response_queue) \o task[t].pending
            /\ Return(t, Response(resp.id, body[1], body[2]))
       ELSE /\ response_queue' = Tail(response_queue)
            /\ task' = [task EXCEPT ![t].pc = "check",
                                    ![t].pending = Append(@, resp)]
            /\ last' = NoEnded
            /\ UNCHANGED <<tools_cache, initialized, lastList>>
    /\ UNCHANGED <<ids, sse_client, http_client, listener_task, nsess, cur,
                   server, mapv>>

\* What line 264 leaves of the set-aside Responses: nothing is put back.
DroppedAtDeadline(pending) == Range(pending)

\* Lines 262-264: the deadline has passed at the top of the loop, which the
\* task reaches without suspending after it has set a Response aside.
TimeoutCheck(t) ==
    /\ task[t].pc = "check"
    /\ Raise(t, DroppedAtDeadline(task[t].pending), WaitTimeout)
    /\ UNCHANGED <<ids, sse_client, http_client, listener_task, nsess, cur,
                   response_queue, server, mapv>>

\* Lines 282-286: wait_for times out on the queue; the set-aside Responses
\* are put back.
TimeoutGet(t) ==
    /\ Waiting(t)
    /\ response_queue' = response_queue \o task[t].pending
    /\ Raise(t, {}, WaitTimeout)
    /\ UNCHANGED <<ids, sse_client, http_client, listener_task, nsess, cur,
                   server, mapv>>

\* What a cancellation of the wait leaves of the set-aside Responses: the
\* CancelledError passes "except asyncio.TimeoutError", nothing is put back.
DroppedAtCancel(pending) == Range(pending)

\* call_tool 337-339: asyncio.timeout(timeout) expires while the task is
\* suspended in the POST or in the wait; the task is cancelled there and
\* the CancelledError becomes a TimeoutError at the end of the block.
Cancel(t) ==
    /\ task[t].op = "call"
    /\ task[t].tmo
    /\ task[t].pc \in {"post", "posted", "wait", "check"}
    /\ Raise(t, DroppedAtCancel(task[t].pending), CallTimeout)
    /\ UNCHANGED <<ids, sse_client, http_client, listener_task, nsess, cur,
                   response_queue, server, mapv>>

----------------------------------------------------------------------------
(* connect, lines 95-117, and _initialize, lines 148-164 *)

\* Line 104: a new SSEClient replaces the old one, which is not closed; then
\* the await of SSEClient.connect.
StartConnect ==
    /\ task[Life].pc = "idle"
    /\ sse_client' = "new"
    /\ cur' = 0
    /\ task' = [task EXCEPT ![Life] = NewTask("connect", "open", 0, "", FALSE, 0, NoList)]
    /\ lastList' = NoList
    /\ last' = NoEnded
    /\ UNCHANGED <<ids, http_client, initialized, listener_task, nsess,
                   tools_cache, response_queue, server, mapv>>

\* Lines 105-106: SSEClient.connect returns False (it has closed itself,
\* sse_client.py 151-160); connect returns False.
SseConnectFail ==
    /\ task[Life].pc = "open"
    /\ sse_client' = "closed"
    /\ Complete(Life, task[Life], NoExc, {}, Outcome("false", "", {}, 0, "None", FALSE))
    /\ UNCHANGED <<ids, http_client, initialized, listener_task, nsess, cur,
                   tools_cache, response_queue, server, mapv>>

\* Lines 105-112 and 150-154: the stream is open, the drain task is created,
\* the initialize request gets a fresh id and is POSTed.
SseConnectOk ==
    /\ task[Life].pc = "open"
    /\ nsess < MaxSess
    /\ request_id < MaxId
    /\ nsess' = nsess + 1
    /\ cur' = nsess'
    /\ sse_client' = "connected"
    /\ alive' = alive \cup {cur'}
    /\ listener_task' = cur'
    /\ drains' = drains \cup {cur'}
    /\ request_id' = NextRequestId(request_id)
    /\ allocated' = Append(allocated, request_id')
    /\ http_client' = TRUE
    /\ task' = [task EXCEPT ![Life] =
           NewTask("connect", "post", request_id', "", FALSE, cur', NoList)]
    /\ last' = NoEnded
    /\ UNCHANGED <<initialized, tools_cache, response_queue, streams, owed,
                   lastList, mapv>>

\* (a notification whose failure fails connect)
NotifiedOrFailed ==
    /\ task[Life].pc = "notify"
    /\ \E sent \in BOOLEAN :
          /\ initialized' = sent
          /\ Complete(Life, task[Life], NoExc, {},
                      Outcome(IF sent THEN "true" ELSE "false", "", {}, 0, "None", TRUE))
    /\ UNCHANGED <<ids, sse_client, http_client, listener_task, nsess, cur,
                   tools_cache, response_queue, server, mapv>>

\* Lines 159-164: the initialized notification was POSTed (a failure is
\* logged, 183-192); the client is initialized; connect returns True.
Notified ==
    /\ task[Life].pc = "notify"
    /\ initialized' = TRUE
    /\ Complete(Life, task[Life], NoExc, {}, Outcome("true", "", {}, 0, "None", TRUE))
    /\ UNCHANGED <<ids, sse_client, http_client, listener_task, nsess, cur,
                   tools_cache, response_queue, server, mapv>>

----------------------------------------------------------------------------
(* close, lines 443-469 *)

\* (a close that leaves the drain task running)
StartCloseKeepsDrain ==
    /\ task[Life].pc = "idle"
    /\ listener_task' = 0
    /\ task' = [task EXCEPT ![Life] = NewTask("close", "cl_http", 0, "", FALSE, 0, NoList)]
    /\ lastList' = NoList
    /\ last' = NoEnded
    /\ UNCHANGED <<ids, sse_client, http_client, initialized, nsess, cur,
                   tools_cache, response_queue, server, mapv>>

\* Lines 446-452: the drain task is cancelled and awaited.
StartClose ==
    /\ task[Life].pc = "idle"
    /\ drains' = drains \ {listener_task}
    /\ listener_task' = 0
    /\ task' = [task EXCEPT ![Life] = NewTask("close", "cl_http", 0, "", FALSE, 0, NoList)]
    /\ lastList' = NoList
    /\ last' = NoEnded
    /\ UNCHANGED <<ids, sse_client, http_client, initialized, nsess, cur,
                   tools_cache, response_queue, streams, alive, owed, mapv>>

\* Lines 454-456: the request socket is closed.
CloseHttp ==
    /\ task[Life].pc = "cl_http"
    /\ http_client' = FALSE
    /\ task' = [task EXCEPT ![Life].pc = "cl_sse"]
    /\ last' = NoEnded
    /\ UNCHANGED <<ids, sse_client, initialized, listener_task, nsess, cur,
                   tools_cache, response_queue, server, lastList, mapv>>

\* (a close that resets the counter with the rest of the session state)
RequestIdResetByClose(rid) == 0

\* _request_id across close: lines 443-469 do not touch it.
RequestIdAfterClose(rid) == rid

\* Lines 458-469: the SSE client is closed and dropped, then the flags, the
\* cache and the queue are cleared.
CloseSse ==
    /\ task[Life].pc = "cl_sse"
    /\ sse_client' = "none"
    /\ cur' = 0
    /\ alive' = alive \ {cur}
    /\ streams' = [s \in Sessions |-> IF s = cur THEN <<>> ELSE streams[s]]
    /\ owed' = {o \in owed : o.sess # cur}
    /\ initialized' = FALSE
    /\ tools_cache' = "None"
    /\ response_queue' = <<>>
    /\ request_id' = RequestIdAfterClose(request_id)
    /\ Complete(Life, task[Life], NoExc, {}, Outcome("closed", "", {}, 0, "None", FALSE))
    /\ UNCHANGED <<allocated, http_client, listener_task, nsess, drains, mapv>>

----------------------------------------------------------------------------
(* The server's side of the stream, and the drain task, lines 119-146 *)

\* A Response on its way to the operation that waits for it.  The stream,
\* the drain task, the queue and the waiters look at its id alone (line 273);
\* the result and error the server gave it are drawn where the operation
\* gets it (Take).
\* (early: no waiter for its id was waiting when the drain task queued it.)
Queued(id) == [id |-> id, early |-> FALSE]

\* The server sends the Response it owes as a message event.
ServerEmit(o) ==
    /\ o \in owed
    /\ o.sess \in alive
    /\ owed' = owed \ {o}
    /\ streams' = [streams EXCEPT ![o.sess] =
           Append(@, [type |-> "message", resp |-> Queued(o.id)])]
    /\ last' = NoEnded
    /\ UNCHANGED <<ids, conn, tools_cache, response_queue, drains, alive,
                   task, lastList, mapv>>

\* Lines 125-141: what the drain task puts into the queue for an event.
Deposit(queue, ev, isEarly) ==
    IF ev.type = "message"
    THEN Append(queue, [ev.resp EXCEPT !.early = isEarly])
    ELSE queue

\* One pass of the loop at line 125.
Drain(s) ==
    /\ s \in drains
    /\ streams[s] # <<>>
    /\ LET ev == Head(streams[s]) IN
       response_queue' = Deposit(response_queue, ev,
                                 ~\E t \in Tasks : Waiting(t) /\ task[t].id = ev.resp.id)
    /\ streams' = [streams EXCEPT ![s] = Tail(@)]
    /\ last' = NoEnded
    /\ UNCHANGED <<ids, conn, tools_cache, drains, alive, owed, task,
                   lastList, mapv>>

----------------------------------------------------------------------------

\* call_tool and list_tools started by the callers in C.
CallerNext(C) ==
    \/ \E t \in C, name \in ToolNames, tmo \in BOOLEAN : StartCall(t, name, tmo)
    \/ \E t \in C : ListCached(t)
    \/ \E t \in C, uc \in BOOLEAN : StartList(t, uc)

\* A request on its way: the POST, its answer, the wait.
RequestNext ==
    \/ \E t \in Tasks : \E body \in Bodies(task[t].op), rid \in {0, task[t].id} :
          PostBody(t, body, rid)
    \/ \E t \in Tasks, exc \in PostExcs : PostFail(t, exc)
    \/ \E t \in Tasks : ServerAccept(t)
    \/ \E t \in Tasks : Post202(t)
    \/ \E t \in Tasks : \E body \in Bodies(task[t].op) : Take(t, body)
    \/ \E t \in Tasks : TimeoutCheck(t)
    \/ \E t \in Tasks : TimeoutGet(t)
    \/ \E t \in Tasks : Cancel(t)

\* The server's pushes and the drain tasks.
StreamNext ==
    \/ \E o \in owed : ServerEmit(o)
    \/ \E s \in Sessions : Drain(s)

\* connect and close.
LifeNext ==
    \/ StartConnect
    \/ SseConnectFail
    \/ SseConnectOk
    \/ Notified
    \/ StartClose
    \/ CloseHttp
    \/ CloseSse

\* A second caller runs call_tool("x") without a timeout on the
\* initialized client, beside whatever else is running.
StartSecondCall == initialized /\ StartCall("b", "x", FALSE)

\* A client from its construction: the lifecycle task, a caller that runs
\* list_tools and call_tool at any time, and the second caller.
Next ==
    \/ LifeNext
    \/ CallerNext({"a"})
    \/ StartSecondCall
    \/ RequestNext
    \/ StreamNext

Spec == Init /\ [][Next]_vars

----------------------------------------------------------------------------
(* A connected client with two concurrent callers *)

\* The state connect() leaves when it returns True on a new client:
\* session 1 open, its drain task running, id 1 used by initialize.
InitConnected ==
    /\ request_id = 1
    /\ sse_client = "connected"
    /\ http_client = TRUE
    /\ initialized = TRUE
    /\ tools_cache = "None"
    /\ response_queue = <<>>
    /\ listener_task = 1
    /\ nsess = 1
    /\ cur = 1
    /\ streams = [s \in Sessions |-> <<>>]
    /\ drains = {1}
    /\ alive = {1}
    /\ owed = {}
    /\ task = [t \in Tasks |-> IdleTask]
    /\ last = NoEnded
    /\ allocated = <<1>>
    /\ lastList = NoList
    /\ mapIn = NoMapIn
    /\ mapOut = NoOutcome
    /\ now = 0
    /\ timed = NoTimed
    /\ retry = NoRetry
    /\ sse = NoSse
    /\ LoopsIdle

NextCalls == CallerNext(Callers) \/ RequestNext \/ StreamNext

SpecCalls == InitConnected /\ [][NextCalls]_vars

----------------------------------------------------------------------------
(* The Response-to-outcome mapping of call_tool on its own *)

Responses ==
    {Response(i, r, e) : i \in Ids, r \in ResultVals, e \in {NoError} \cup MCPErrors}

\* Any tool name and any Response, delivered to call_tool by _send_request.
InitMap ==
    /\ request_id = 0
    /\ sse_client = "none"
    /\ http_client = FALSE
    /\ initialized = FALSE
    /\ tools_cache = "None"
    /\ response_queue = <<>>
    /\ listener_task = 0
    /\ nsess = 0
    /\ cur = 0
    /\ streams = [s \in Sessions |-> <<>>]
    /\ drains = {}
    /\ alive = {}
    /\ owed = {}
    /\ task = [t \in Tasks |-> IdleTask]
    /\ last = NoEnded
    /\ allocated = <<>>
    /\ lastList = NoList
    /\ mapIn \in [name : ToolNames, resp : Responses]
    /\ mapOut = NoOutcome
    /\ now = 0
    /\ timed = NoTimed
    /\ retry = NoRetry
    /\ sse = NoSse
    /\ LoopsIdle

\* call_tool, lines 343-362, on the Response.
MapResponse ==
    /\ mapOut = NoOutcome
    /\ mapOut' = CallToolOutcome(mapIn.name, mapIn.resp)
    /\ UNCHANGED <<ids, conn, server, tools_cache, response_queue, task, last,
                   lastList, mapIn, now, timed, retry, sse, loops>>

NextMap == MapResponse

SpecMap == InitMap /\ [][NextMap]_vars

----------------------------------------------------------------------------
(* A new client used in sequence (connect, then call_tool) with a server   *)
(* that answers every request with a result, in the POST body or over the  *)
(* stream, in time                                                         *)

\* The result the server gives.
GoodBody == <<"t1", NoError>>

\* call_tool once connect has returned True.
StartCallReady ==
    initialized /\ \E name \in ToolNames, tmo \in BOOLEAN : StartCall("a", name, tmo)

NextGood ==
    \/ StartConnect
    \/ SseConnectOk
    \/ Notified
    \/ StartCallReady
    \/ \E t \in Tasks : PostBody(t, GoodBody, task[t].id)
    \/ \E t \in Tasks : ServerAccept(t)
    \/ \E t \in Tasks : Post202(t)
    \/ \E t \in Tasks : Take(t, GoodBody)
    \/ StreamNext

SpecGood == Init /\ [][NextGood]_vars

----------------------------------------------------------------------------
(* One call_tool followed in wall-clock time: call_tool 337-341,            *)
(* _send_request 217-233, _wait_for_sse_response 245-286                   *)

MaxTime == 45     \* seconds of wall clock followed

\* _wait_for_sse_response, line 246: timeout: float = 30.0
DefaultWait == 30

\* The timeout argument of call_tool: 0 stands for None (line 337 tests
\* "if timeout"), the others are seconds below and above DefaultWait.
Timeouts == {0, 10, 40}

\* (a wait bounded by the caller's timeout alone, unbounded without one)
WaitTimeoutOfCaller(T) == IF T = 0 THEN MaxTime + DefaultWait ELSE T

\* Lines 227 and 233: _wait_for_sse_response(request.id) is called without
\* a timeout, so the wait has the default whatever call_tool was given.
WaitTimeoutOf(T) == DefaultWait

InitTime ==
    /\ ClientFresh
    /\ now = 0
    /\ timed = NoTimed
    /\ retry = NoRetry
    /\ sse = NoSse
    /\ LoopsIdle

\* call_tool 337-339: asyncio.timeout(T) starts with the block, at the POST.
TimedCall(T) ==
    /\ timed.pc = "idle"
    /\ timed.out = "none"
    /\ timed' = [timed EXCEPT !.pc = "post", !.T = T, !.t0 = now]
    /\ UNCHANGED <<mcp, mapIn, mapOut, now, retry, sse, loops>>

\* The deadline of asyncio.timeout(T) has come.
CallDue == timed.T # 0 /\ timed.pc \in {"post", "wait"} /\ now - timed.t0 >= timed.T

\* Lines 261-264 and 267-270: the deadline of the wait has come.
WaitDue == timed.pc = "wait" /\ now - timed.w0 >= WaitTimeoutOf(timed.T)

\* Time passes while the POST or the wait is pending and no deadline is due.
Tick ==
    /\ timed.pc \in {"post", "wait"}
    /\ ~CallDue /\ ~WaitDue
    /\ now < MaxTime
    /\ now' = now + 1
    /\ UNCHANGED <<mcp, mapIn, mapOut, timed, retry, sse, loops>>

\* Lines 226-233 and 258: the POST is answered 202; start_time of the wait.
TimedAccept ==
    /\ timed.pc = "post"
    /\ ~CallDue
    /\ timed' = [timed EXCEPT !.pc = "wait", !.w0 = now]
    /\ UNCHANGED <<mcp, mapIn, mapOut, now, retry, sse, loops>>

\* The Response arrives (in the POST body, or in the queue) before a
\* deadline: call_tool returns its outcome.
TimedResponse ==
    /\ timed.pc \in {"post", "wait"}
    /\ ~CallDue /\ ~WaitDue
    /\ timed' = [timed EXCEPT !.pc = "idle", !.out = "ok", !.at = timed.pc,
                               !.end = now]
    /\ UNCHANGED <<mcp, mapIn, mapOut, now, retry, sse, loops>>

\* Lines 264 and 286 with call_tool 364-371: the wait times out.
TimedWaitExpires ==
    /\ WaitDue
    /\ timed' = [timed EXCEPT !.pc = "idle", !.out = "timeout", !.at = timed.pc,
                               !.end = now]
    /\ UNCHANGED <<mcp, mapIn, mapOut, now, retry, sse, loops>>

\* call_tool 338 with 364-371: asyncio.timeout(T) expires.
TimedCallExpires ==
    /\ CallDue
    /\ timed' = [timed EXCEPT !.pc = "idle", !.out = "timeout", !.at = timed.pc,
                               !.end = now]
    /\ UNCHANGED <<mcp, mapIn, mapOut, now, retry, sse, loops>>

NextTime ==
    \/ \E T \in Timeouts : TimedCall(T)
    \/ Tick
    \/ TimedAccept
    \/ TimedResponse
    \/ TimedWaitExpires
    \/ TimedCallExpires

SpecTime == InitTime /\ [][NextTime]_vars

\* The event loop runs its timers: time passes while a deadline is ahead, and
\* a deadline that has come is acted on.
SpecTimeFair ==
    SpecTime /\ WF_vars(Tick) /\ WF_vars(TimedWaitExpires)
             /\ WF_vars(TimedCallExpires)

----------------------------------------------------------------------------
(* ReconnectingSSEClient.connect_with_retry, sse_client.py 360-382, with    *)
(* whole-second delays; connect() is a step that returns True or False      *)

MaxRetries == 6     \* largest max_retries drawn

Bases == 1..3
Multipliers == 1..3
Maxima == {2, 3, 10, 60}
Counts == {0, 3}    \* reconnect_count when connect_with_retry is called

Min(a, b) == IF a <= b THEN a ELSE b

\* (a delay that keeps growing past backoff_max)
NextDelayUncapped(delay, mult, max) == delay * mult

\* Line 374: delay = min(delay * self.backoff_multiplier, self.backoff_max)
NextDelay(delay, mult, max) == Min(delay * mult, max)

\* ReconnectingSSEClient.__init__, lines 328-353, and a call of
\* connect_with_retry up to its loop: delay = self.backoff_base (line 367).
\* The call is the first one or a later one (the counter of line 353 is set
\* once, by the constructor).
InitBackoff ==
    /\ ClientFresh
    /\ now = 0 /\ timed = NoTimed /\ sse = NoSse
    /\ LoopsIdle
    /\ \E b \in Bases, m \in Multipliers, x \in Maxima, n \in 0..MaxRetries,
          c \in Counts :
          retry = [pc |-> "connect", base |-> b, mult |-> m, max |-> x,
                   max_retries |-> n, delay |-> b, attempt |-> 0, before |-> c,
                   reconnect_count |-> c, slept |-> <<>>, ret |-> "none"]

\* Lines 370-374: a retry counts itself, sleeps the delay, and sets the next.
RetrySleep ==
    /\ retry.pc = "sleep"
    /\ retry' = [retry EXCEPT !.pc = "connect",
                              !.reconnect_count = @ + 1,
                              !.slept = Append(@, retry.delay),
                              !.delay = NextDelay(retry.delay, retry.mult, retry.max)]
    /\ UNCHANGED <<mcp, mapIn, mapOut, now, timed, sse, loops>>

\* Lines 376-379: connect() returned True.
RetryConnected ==
    /\ retry.pc = "connect"
    /\ retry' = [retry EXCEPT !.pc = "done", !.ret = "true"]
    /\ UNCHANGED <<mcp, mapIn, mapOut, now, timed, sse, loops>>

\* (a loop that goes round once more than range(max_retries + 1))
RetryFailedOnceMore ==
    /\ retry.pc = "connect"
    /\ retry' = IF retry.attempt <= retry.max_retries
                THEN [retry EXCEPT !.pc = "sleep", !.attempt = @ + 1]
                ELSE [retry EXCEPT !.pc = "done", !.ret = "false"]
    /\ UNCHANGED <<mcp, mapIn, mapOut, now, timed, sse, loops>>

\* Lines 369 and 376: connect() returned False; the next attempt, or after
\* max_retries retries lines 381-382: return False.
RetryFailed ==
    /\ retry.pc = "connect"
    /\ retry' = IF retry.attempt < retry.max_retries
                THEN [retry EXCEPT !.pc = "sleep", !.attempt = @ + 1]
                ELSE [retry EXCEPT !.pc = "done", !.ret = "false"]
    /\ UNCHANGED <<mcp, mapIn, mapOut, now, timed, sse, loops>>

NextBackoff == RetrySleep \/ RetryConnected \/ RetryFailed

SpecBackoff == InitBackoff /\ [][NextBackoff]_vars

----------------------------------------------------------------------------
(* SSEClient on its own: connect 76-160, close 292-312, message_endpoint    *)
(* 65-74.  One task calls connect() and close() in sequence; the event      *)
(* source opens or fails, delivers events, ends, or stays silent.           *)

MaxEvents == 3     \* events read by the connect() calls followed

\* What the event source and the handling of an event raise: the connect
\* timeout of aiohttp (an asyncio.TimeoutError), a connection error, and
\* endpoint data that is JSON but no object (.get on it, lines 134-135).
OpenExcs == {"TimeoutError", "ClientError"}
WaitExcs == {"ClientError", "AttributeError"}

\* The data of an endpoint event: a relative path that starts with "/"
\* ("/mcp/message?sessionId=..."), an absolute URL, a relative path that
\* does not start with "/" ("mcp/message?sessionId=..."), or a JSON object
\* without "uri".
EndpointKinds == {"rel", "abs", "bare", "nouri"}

\* (a close that leaves the connection info of the last session)
FieldsAfterCloseKeepInfo(s) ==
    [s EXCEPT !.is_connected = FALSE, !.event_source = FALSE, !.session = FALSE]

\* close, lines 292-312: the fields when it returns.
FieldsAfterClose(s) ==
    [s EXCEPT !.is_connected = FALSE, !.event_source = FALSE, !.session = FALSE,
              !.info = "None"]

\* (a connect whose handlers let the timeout pass)
CaughtExceptTimeout(cls) == cls \in {"ClientError", "AttributeError"}

\* connect, lines 151-160: "except asyncio.TimeoutError" and "except
\* Exception" catch every one of these classes.
Caught(cls) == cls \in {"TimeoutError", "ClientError", "AttributeError"}

\* message_endpoint, lines 65-74: no connection info or no endpoint in it,
\* config.message_url; an endpoint that starts with "/", config.base_url
\* followed by it; any other endpoint as it is.
message_endpoint(s) ==
    CASE s.info \in {"None", "nouri"} -> <<"message_url">>
      [] s.info = "rel"               -> <<"base_url", "endpoint">>
      [] OTHER                        -> <<"endpoint">>

\* connect, lines 151-160: an exception of class cls in the try block.
\* asyncio.TimeoutError: close, return False.  Any other Exception: on_error
\* if there is one, close, return False.
ConnectHandler(s, cls, why) ==
    IF Caught(cls)
    THEN [FieldsAfterClose(s) EXCEPT
              !.pc = "idle", !.ret = "false", !.why = why,
              !.reported = IF cls # "TimeoutError" /\ s.on_error THEN 1 ELSE 0]
    ELSE [s EXCEPT !.pc = "idle", !.ret = "raised", !.why = why, !.reported = 0]

InitSse ==
    /\ ClientFresh
    /\ now = 0 /\ timed = NoTimed /\ retry = NoRetry
    /\ LoopsIdle
    /\ \E cb \in BOOLEAN : sse = [NoSse EXCEPT !.on_error = cb]

\* Lines 86-88: already connected.
ConnectAlready ==
    /\ sse.pc = "idle" /\ sse.is_connected
    /\ sse' = [sse EXCEPT !.op = "connect", !.ret = "true", !.why = "already",
                          !.reported = 0]
    /\ UNCHANGED <<mcp, mapIn, mapOut, now, timed, retry, loops>>

\* Lines 90-115: the session and the event source are created; the await of
\* EventSource.connect.
ConnectOpen ==
    /\ sse.pc = "idle" /\ ~sse.is_connected
    /\ sse' = [sse EXCEPT !.op = "connect", !.pc = "opening", !.session = TRUE,
                          !.event_source = TRUE, !.ret = "none", !.why = "none",
                          !.reported = 0]
    /\ UNCHANGED <<mcp, mapIn, mapOut, now, timed, retry, loops>>

\* Line 115 raises: the socket cannot be opened, or the attempt times out.
OpenRaises(cls) ==
    /\ sse.pc = "opening"
    /\ sse' = ConnectHandler(sse, cls,
                  IF cls = "TimeoutError" THEN "open_timeout" ELSE "open_failed")
    /\ UNCHANGED <<mcp, mapIn, mapOut, now, timed, retry, loops>>

\* Lines 115-120: the stream is open; the wait for the endpoint event begins.
Opened ==
    /\ sse.pc = "opening"
    /\ sse' = [sse EXCEPT !.pc = "waiting", !.is_connected = TRUE]
    /\ UNCHANGED <<mcp, mapIn, mapOut, now, timed, retry, loops>>

\* Lines 121-128: an event that is no endpoint event is read and passed over.
EventSkipped ==
    /\ sse.pc = "waiting"
    /\ sse.events < MaxEvents
    /\ sse' = [sse EXCEPT !.events = @ + 1]
    /\ UNCHANGED <<mcp, mapIn, mapOut, now, timed, retry, loops>>

\* Lines 128-146: the endpoint event; the connection info is set; True.
EndpointEvent(kind) ==
    /\ sse.pc = "waiting"
    /\ sse.events < MaxEvents
    /\ sse' = [sse EXCEPT !.pc = "idle", !.events = @ + 1, !.info = kind,
                          !.ret = "true", !.why = "endpoint"]
    /\ UNCHANGED <<mcp, mapIn, mapOut, now, timed, retry, loops>>

\* Lines 121-135 raise: the stream breaks, or the endpoint data is no object.
WaitRaises(cls) ==
    /\ sse.pc = "waiting"
    /\ sse' = ConnectHandler(sse, cls,
                  IF cls = "AttributeError" THEN "bad_endpoint" ELSE "stream_failed")
    /\ UNCHANGED <<mcp, mapIn, mapOut, now, timed, retry, loops>>

\* Lines 121 and 148-149: the stream ends before an endpoint event; True.
StreamEnds ==
    /\ sse.pc = "waiting"
    /\ sse' = [sse EXCEPT !.pc = "idle", !.ret = "true", !.why = "ended"]
    /\ UNCHANGED <<mcp, mapIn, mapOut, now, timed, retry, loops>>

\* Line 120: the deadline of asyncio.timeout passes before an endpoint
\* event; the TimeoutError it raises meets the handler of line 151.
EndpointDeadline ==
    /\ sse.pc = "waiting"
    /\ sse' = ConnectHandler(sse, "TimeoutError", "deadline")
    /\ UNCHANGED <<mcp, mapIn, mapOut, now, timed, retry, loops>>

\* close, lines 292-312.
TransportClose ==
    /\ sse.pc = "idle"
    /\ sse' = [FieldsAfterClose(sse) EXCEPT !.op = "close"]
    /\ UNCHANGED <<mcp, mapIn, mapOut, now, timed, retry, loops>>

\* listen, lines 186-215: the iteration of the event source raises while
\* listen() runs on a connected transport; the transport stops reporting
\* connected, on_error is called, the exception goes to the consumer.  The
\* session, the event source and the connection info stay as they were.
ListenError ==
    /\ sse.pc = "idle" /\ sse.is_connected /\ sse.event_source
    /\ sse' = [sse EXCEPT !.op = "listen", !.is_connected = FALSE,
                          !.ret = "none", !.why = "listen_failed",
                          !.reported = IF sse.on_error THEN 1 ELSE 0]
    /\ UNCHANGED <<mcp, mapIn, mapOut, now, timed, retry, loops>>

NextSse ==
    \/ ConnectAlready
    \/ ListenError
    \/ ConnectOpen
    \/ \E cls \in OpenExcs : OpenRaises(cls)
    \/ Opened
    \/ EventSkipped
    \/ \E kind \in EndpointKinds : EndpointEvent(kind)
    \/ \E cls \in WaitExcs : WaitRaises(cls)
    \/ StreamEnds
    \/ EndpointDeadline
    \/ TransportClose

SpecSse == InitSse /\ [][NextSse]_vars

----------------------------------------------------------------------------
(* ReconnectingSSEClient.listen_with_reconnect, sse_client.py 384-405, with *)
(* listen 179-215 and connect_with_retry 360-382.  An event is the pair of  *)
(* the stream it came on and its position there; the endpoint event of a    *)
(* stream is read by connect() and is not among them.                       *)

MaxStreams == 3     \* streams opened in one run
MaxRead    == 2     \* events read from one stream
MaxBudget  == 2     \* largest max_retries drawn

\* The rest of the variables in the stand-alone loops.
AloneFresh ==
    /\ ClientFresh
    /\ now = 0 /\ timed = NoTimed /\ retry = NoRetry /\ sse = NoSse
    /\ sync = NoSync /\ health = NoHealth

\* (a consumer served from _message_queue, which close() does not clear)
YieldFromQueue(queue, event) == Head(queue)

\* listen, lines 200-206: the event is put in _message_queue, and the event
\* itself is yielded.
Yield(queue, event) == event

\* Lines 391-394 and 397: the generator is started on a transport that is
\* connected (after connect()) or not; connected, it iterates listen();
\* not connected, it calls connect_with_retry.
InitReconnect ==
    /\ AloneFresh
    /\ waiter = NoWaiter /\ listen = NoListen
    /\ \E n \in 0..MaxBudget, c \in BOOLEAN :
          lwr = [NoLwr EXCEPT !.max_retries = n,
                              !.pc = IF c THEN "listen" ELSE "first",
                              !.is_connected = c,
                              !.session = IF c THEN 1 ELSE 0,
                              !.stream = IF c THEN 1 ELSE 0,
                              !.nstreams = IF c THEN 1 ELSE 0]

\* connect_with_retry, line 376, in either call (394, 404): connect()
\* returns True; the loop of 391 goes on into listen() on the new stream.
AttemptSucceeds ==
    /\ lwr.pc \in {"first", "again"}
    /\ lwr.nstreams < MaxStreams
    /\ lwr' = [lwr EXCEPT !.pc = "listen", !.is_connected = TRUE,
                          !.nstreams = @ + 1, !.stream = lwr.nstreams + 1,
                          !.session = lwr.nstreams + 1,
                          !.read = 0, !.ended = FALSE,
                          !.attempts = 0, !.total = 0]
    /\ UNCHANGED <<mcp, mapIn, mapOut, now, timed, retry, sse, waiter, listen, sync, health>>

\* connect_with_retry, lines 369-382: connect() returns False; after
\* max_retries retries connect_with_retry returns False.  In the try of 392
\* that raises RuntimeError (395), which the handler of 400 catches: close()
\* and a second connect_with_retry (404).  In the handler it raises
\* RuntimeError (405), which leaves the generator.
AttemptFails ==
    /\ lwr.pc \in {"first", "again"}
    /\ lwr' = IF lwr.attempts < lwr.max_retries
              THEN [lwr EXCEPT !.attempts = @ + 1, !.total = @ + 1]
              ELSE IF lwr.pc = "first"
                   THEN [lwr EXCEPT !.pc = "again", !.attempts = 0, !.total = @ + 1]
                   ELSE [lwr EXCEPT !.pc = "done", !.total = @ + 1, !.out = "raised"]
    /\ UNCHANGED <<mcp, mapIn, mapOut, now, timed, retry, sse, waiter, listen, sync, health>>

\* listen, lines 190-206, and line 398: the next event of the stream.
ListenYields ==
    /\ lwr.pc = "listen" /\ ~lwr.ended
    /\ lwr.read < MaxRead
    /\ LET event == <<lwr.stream, lwr.read + 1>>
           queue == Append(lwr.message_queue, event)
       IN  lwr' = [lwr EXCEPT !.read = @ + 1, !.message_queue = queue,
                              !.yielded = Append(@, Yield(queue, event))]
    /\ UNCHANGED <<mcp, mapIn, mapOut, now, timed, retry, sse, waiter, listen, sync, health>>

\* listen, lines 208-215: the stream raises; _is_connected = False; the
\* exception meets line 400: close() (the connection info is dropped, the
\* message queue is kept), then connect_with_retry (404).
ListenRaises ==
    /\ lwr.pc = "listen"
    /\ lwr' = [lwr EXCEPT !.pc = "again", !.is_connected = FALSE,
                          !.session = 0, !.stream = 0, !.lost = @ + 1,
                          !.attempts = 0, !.total = 0]
    /\ UNCHANGED <<mcp, mapIn, mapOut, now, timed, retry, sse, waiter, listen, sync, health>>

\* listen, line 190: the stream ends without an exception; the loop of 391
\* finds the transport connected and iterates the same event source again.
ListenEnds ==
    /\ lwr.pc = "listen" /\ ~lwr.ended
    /\ lwr' = [lwr EXCEPT !.ended = TRUE]
    /\ UNCHANGED <<mcp, mapIn, mapOut, now, timed, retry, sse, waiter, listen, sync, health>>

NextReconnect ==
    AttemptSucceeds \/ AttemptFails \/ ListenYields \/ ListenRaises \/ ListenEnds

SpecReconnect == InitReconnect /\ [][NextReconnect]_vars

----------------------------------------------------------------------------
(* _wait_for_sse_response on its own, mcp_client.py 245-286: one waiter     *)
(* over a queue into which the drain task goes on depositing.  A Response   *)
(* carries as its id the number of its arrival.                             *)

MaxArrive == 5     \* Responses deposited in one run

\* _wait_for_sse_response is called (258-259) for a request id, with some
\* Responses already in the queue.
InitWait ==
    /\ AloneFresh
    /\ lwr = NoLwr /\ listen = NoListen
    /\ \E rid \in 1..MaxArrive, k \in 0..MaxArrive :
          waiter = [NoWaiter EXCEPT !.pc = "wait", !.request_id = rid,
                                   !.queue = [n \in 1..k |-> [id |-> n]],
                                   !.arrived = k]

\* _listen_for_responses, line 135: one more Response is deposited.
WaitDeposit ==
    /\ waiter.pc = "wait"
    /\ waiter.arrived < MaxArrive
    /\ waiter' = [waiter EXCEPT !.arrived = @ + 1,
                                !.queue = Append(@, [id |-> waiter.arrived + 1])]
    /\ UNCHANGED <<mcp, mapIn, mapOut, now, timed, retry, sse, lwr, listen, sync, health>>

\* Lines 267-280: the get returns the head of the queue.  The waiter's own
\* Response: the set-aside ones are put back one by one (275-276), and it
\* returns.  Another one: it is set aside.
WaitGet ==
    /\ waiter.pc = "wait"
    /\ waiter.queue # <<>>
    /\ LET response == Head(waiter.queue) IN
       waiter' = IF Matches(waiter.request_id, response)
                 THEN [waiter EXCEPT !.pc = "done", !.ret = "response",
                          !.queue = Tail(@) \o waiter.pending_responses,
                          !.pending_responses = <<>>]
                 ELSE [waiter EXCEPT !.queue = Tail(@),
                          !.pending_responses = Append(@, response)]
    /\ UNCHANGED <<mcp, mapIn, mapOut, now, timed, retry, sse, lwr, listen, sync, health>>

\* Lines 262-264: the deadline has passed at the top of the loop, nothing is
\* put back.  Lines 282-286: the get times out on the empty queue, the
\* set-aside Responses are put back.
WaitTimesOut(atTop) ==
    /\ waiter.pc = "wait"
    /\ atTop \/ waiter.queue = <<>>
    /\ waiter' = [waiter EXCEPT !.pc = "done", !.ret = "timeout",
                      !.queue = IF atTop THEN @ ELSE @ \o waiter.pending_responses,
                      !.pending_responses = <<>>]
    /\ UNCHANGED <<mcp, mapIn, mapOut, now, timed, retry, sse, lwr, listen, sync, health>>

NextWait == WaitDeposit \/ WaitGet \/ \E atTop \in BOOLEAN : WaitTimesOut(atTop)

SpecWait == InitWait /\ [][NextWait]_vars

----------------------------------------------------------------------------
(* _listen_for_responses on its own, mcp_client.py 119-146: the drain task  *)
(* over a stream of events of every type and with every sort of data.       *)

MaxDrain == 3     \* events the stream delivers in one run

EventTypes == {"endpoint", "message", "heartbeat", "other"}

\* The data of an event: empty; text that is not JSON; JSON that is no
\* object; an object whose fields have the wrong types; an object that is no
\* Response (no id, result or error); a Response.
DataKinds == {"empty", "text", "scalar", "badobject", "object", "response"}

\* Lines 133-134: what json.loads(event.data) and MCPResponse(**data) raise.
\* Every field of MCPResponse has a default (mcp_messages.py 95-101), so any
\* object with well-typed fields is accepted.
DecodeRaises(data) ==
    CASE data = "text"      -> "JSONDecodeError"
      [] data = "scalar"    -> "TypeError"
      [] data = "badobject" -> "ValidationError"
      [] OTHER              -> "none"

\* (a loop that handles the JSON error alone)
HandledJsonOnly(cls) == cls = "JSONDecodeError"

\* Lines 137-141: "except json.JSONDecodeError" and "except Exception".
Handled(cls) == cls \in {"JSONDecodeError", "TypeError", "ValidationError"}

\* Lines 121-125: the drain task is started on an open event source.
InitListen ==
    /\ AloneFresh
    /\ lwr = NoLwr /\ waiter = NoWaiter
    /\ listen = [NoListen EXCEPT !.pc = "run"]

\* One pass of the loop of line 125 for an event of the given type and data:
\* an endpoint event is skipped (127-128), empty data is skipped (131), data
\* that decodes is put in the queue (133-135), a decoding error is logged
\* (137-141).  An entry of the queue is the position of its event.
ListenEvent(type, data) ==
    /\ listen.pc = "run"
    /\ Len(listen.seen) < MaxDrain
    /\ LET n == Len(listen.seen) + 1
           base == [listen EXCEPT !.seen = Append(@, [type |-> type, data |-> data])]
       IN  listen' =
             IF type = "endpoint" \/ data = "empty" THEN base
             ELSE IF DecodeRaises(data) = "none"
                  THEN [base EXCEPT !.queue = Append(@, n)]
                  ELSE IF Handled(DecodeRaises(data)) THEN base
                       ELSE [base EXCEPT !.pc = "stopped", !.why = "decode"]
    /\ UNCHANGED <<mcp, mapIn, mapOut, now, timed, retry, sse, lwr, waiter, sync, health>>

\* Line 125 ends the loop: the stream ends, the task is cancelled (143), or
\* the event source raises (145).
ListenStops(why) ==
    /\ listen.pc = "run"
    /\ listen' = [listen EXCEPT !.pc = "stopped", !.why = why]
    /\ UNCHANGED <<mcp, mapIn, mapOut, now, timed, retry, sse, lwr, waiter, sync, health>>

NextListen ==
    \/ \E type \in EventTypes, data \in DataKinds : ListenEvent(type, data)
    \/ \E why \in {"end", "cancelled", "error"} : ListenStops(why)

SpecListen == InitListen /\ [][NextListen]_vars

----------------------------------------------------------------------------
(* MCPClient.call_tool_sync, mcp_client.py 381-407, called by one task,     *)
(* again and again, with close() between calls.  connect() and call_tool()  *)
(* are followed by what call_tool_sync reads of them: what they return,     *)
(* _initialized, _sse_client, and whether a tools/call request was sent.    *)

MaxSync == 6     \* call_tool_sync calls followed

\* what call_tool_sync is not followed by
unsynced == <<ids, http_client, listener_task, nsess, cur, server,
              tools_cache, response_queue, task, last, lastList,
              mapIn, mapOut, now, timed, retry, sse, lwr, waiter, listen,
              health>>

\* (a call_tool_sync that connects whether or not the client is initialized)
SyncEnterAlwaysConnects(name) ==
    /\ sync.pc \in {"none", "done"}
    /\ sync.calls < MaxSync
    /\ sync' = [pc |-> "connect", tool |-> name, was |-> initialized,
                connects |-> 1, sent |-> 0, ret |-> "none", error |-> "",
                calls |-> sync.calls + 1]
    /\ sse_client' = "new"
    /\ UNCHANGED <<initialized, unsynced>>

\* Lines 399-400 and 407: the test of _initialized; connect() begins (lines
\* 104-105: a new SSEClient), or call_tool is entered.
SyncEnter(name) ==
    /\ sync.pc \in {"none", "done"}
    /\ sync.calls < MaxSync
    /\ sync' = [pc |-> IF initialized THEN "call" ELSE "connect",
                tool |-> name, was |-> initialized,
                connects |-> IF initialized THEN 0 ELSE 1,
                sent |-> 0, ret |-> "none", error |-> "",
                calls |-> sync.calls + 1]
    /\ sse_client' = IF initialized THEN sse_client ELSE "new"
    /\ UNCHANGED <<initialized, unsynced>>

\* Line 400, connect() returned True: lines 105-113, and _initialize set
\* _initialized (line 163).  Line 407: call_tool is entered.
SyncConnected ==
    /\ sync.pc = "connect"
    /\ sse_client' = "connected"
    /\ initialized' = TRUE
    /\ sync' = [sync EXCEPT !.pc = "call"]
    /\ UNCHANGED unsynced

\* Lines 400-405, connect() returned False: the stream was not opened (lines
\* 105-106, the SSEClient has closed itself) or the handshake failed (lines
\* 112-117, the SSEClient stays connected).
SyncConnectFailed(opened) ==
    /\ sync.pc = "connect"
    /\ sse_client' = IF opened THEN "connected" ELSE "closed"
    /\ sync' = [sync EXCEPT !.pc = "done", !.ret = "failure",
                            !.error = "Failed to connect to MCP server"]
    /\ UNCHANGED <<initialized, unsynced>>

\* Line 407 with call_tool 335-341 and _send_request 207-222: the tools/call
\* request is POSTed (_sse_client is set on every path that comes here).
SyncCall ==
    /\ sync.pc = "call"
    /\ sync' = [sync EXCEPT !.pc = "posted", !.sent = @ + 1]
    /\ UNCHANGED <<initialized, sse_client, unsynced>>

\* Line 407 with call_tool 343-379: the ToolCallResult of call_tool is
\* returned as it is: success, or a failure with call_tool's error text.
SyncCallReturns(ok) ==
    /\ sync.pc = "posted"
    /\ sync' = [sync EXCEPT !.pc = "done",
                            !.ret = IF ok THEN "success" ELSE "failure",
                            !.error = IF ok THEN "" ELSE "call_tool error"]
    /\ UNCHANGED <<initialized, sse_client, unsynced>>

\* close() between two calls, lines 443-469: no transport, not initialized.
SyncClose ==
    /\ sync.pc = "done"
    /\ sse_client # "none"
    /\ sse_client' = "none"
    /\ initialized' = FALSE
    /\ sync' = [NoSync EXCEPT !.calls = sync.calls]
    /\ UNCHANGED unsynced

NextSync ==
    \/ \E name \in ToolNames : SyncEnter(name)
    \/ SyncConnected
    \/ \E opened \in BOOLEAN : SyncConnectFailed(opened)
    \/ SyncCall
    \/ \E ok \in BOOLEAN : SyncCallReturns(ok)
    \/ SyncClose

SpecSync == Init /\ [][NextSync]_vars

----------------------------------------------------------------------------
(* The liveness bookkeeping of one SSEClient in time: connect 116-117,      *)
(* listen 190-191, time_since_last_event 268-272, check_connection_health   *)
(* 274-290, wait_for_heartbeat 234-266, and the drain task of MCPClient     *)
(* (mcp_client.py 119-128), which reads the same event source.  Whole       *)
(* seconds; events arrive when the server sends them, or never.             *)

TickStep == 10     \* seconds the clock advances in one step
MaxClock == 80     \* the clock stops here

HealthWindow  == 60     \* check_connection_health: "time_since > 60"
HeartbeatWait == 35     \* wait_for_heartbeat: "timeout or 35.0"

HeartbeatTypes == {"heartbeat", "ping", "keep-alive"}

\* what the liveness bookkeeping is not followed by
unhealthy == <<mcp, mapIn, mapOut, timed, retry, sse, lwr, waiter, listen, sync>>

\* time_since_last_event, lines 268-272: None (the empty set) or the age
time_since_last_event(h, t) == {t - e : e \in h.last_event_time}

\* check_connection_health, lines 281-290
check_connection_health(h, t) ==
    IF ~h.is_connected THEN FALSE
    ELSE ~(\E time_since \in time_since_last_event(h, t) :
               time_since > HealthWindow)

InitHealth ==
    /\ ClientFresh
    /\ mapIn = NoMapIn /\ mapOut = NoOutcome
    /\ now = 0 /\ timed = NoTimed /\ retry = NoRetry /\ sse = NoSse
    /\ lwr = NoLwr /\ waiter = NoWaiter /\ listen = NoListen /\ sync = NoSync
    /\ health = NoHealth

HealthTick ==
    /\ now + TickStep <= MaxClock
    /\ now' = now + TickStep
    /\ health' = [health EXCEPT !.ok = "none"]
    /\ UNCHANGED unhealthy

\* connect, lines 115-117: the stream is open, _is_connected = True,
\* _last_event_time = time.time().
HealthConnect ==
    /\ ~health.is_connected /\ health.hb # "waiting"
    /\ health' = [health EXCEPT !.is_connected = TRUE, !.last_event_time = {now},
                                !.consumed = {now}, !.ok = "none"]
    /\ UNCHANGED <<now, unhealthy>>

\* listen, lines 190-206: a consumer of listen() reads an event.
ListenConsumes ==
    /\ health.is_connected /\ health.hb # "waiting"
    /\ health' = [health EXCEPT !.last_event_time = {now}, !.consumed = {now},
                                !.ok = "none"]
    /\ UNCHANGED <<now, unhealthy>>

\* MCPClient._listen_for_responses, mcp_client.py 125: the drain task reads
\* an event from _sse_client._event_source itself; no field of the SSEClient
\* is written.
DrainConsumes ==
    /\ health.is_connected /\ health.hb # "waiting"
    /\ health' = [health EXCEPT !.consumed = {now}, !.ok = "none"]
    /\ UNCHANGED <<now, unhealthy>>

\* check_connection_health is called.
CheckHealth ==
    /\ health' = [health EXCEPT
           !.ok = IF check_connection_health(health, now) THEN "true" ELSE "false"]
    /\ UNCHANGED <<now, unhealthy>>

\* close, line 294 (_last_event_time is left as it is).
HealthClose ==
    /\ health.is_connected /\ health.hb # "waiting"
    /\ health' = [health EXCEPT !.is_connected = FALSE, !.ok = "none"]
    /\ UNCHANGED <<now, unhealthy>>

\* wait_for_heartbeat, lines 244-248: the start time, the timeout (None and
\* 0 become 35), and listen(): not connected, it raises RuntimeError (lines
\* 186-187), which line 263 turns into False.
WaitForHeartbeat(T) ==
    /\ health.hb # "waiting"
    /\ health' = IF health.is_connected
                 THEN [health EXCEPT !.hb = "waiting", !.start = now,
                                     !.timeout = IF T = 0 THEN HeartbeatWait ELSE T,
                                     !.ret = "none", !.ok = "none"]
                 ELSE [health EXCEPT !.hb = "done", !.start = now,
                                     !.timeout = IF T = 0 THEN HeartbeatWait ELSE T,
                                     !.ret = "false", !.ok = "none"]
    /\ UNCHANGED <<now, unhealthy>>

\* Lines 248-259 with listen 190-206: an event arrives.  A heartbeat event,
\* or any event with data: True.  Otherwise the elapsed time is compared
\* with the timeout: False, or the wait goes on.
HeartbeatEvent(type, data) ==
    /\ health.hb = "waiting"
    /\ LET ret == IF type \in HeartbeatTypes \/ data # "empty" THEN "true"
                  ELSE IF now - health.start > health.timeout THEN "false"
                  ELSE "none"
       IN health' = [health EXCEPT !.last_event_time = {now}, !.consumed = {now},
                                   !.hb = IF ret = "none" THEN "waiting" ELSE "done",
                                   !.ret = ret, !.ok = "none"]
    /\ UNCHANGED <<now, unhealthy>>

\* The stream raises under listen (lines 208-215: _is_connected = False; line
\* 263: False), or ends (line 266: False).
HeartbeatStreamStops(raises) ==
    /\ health.hb = "waiting"
    /\ health' = [health EXCEPT !.hb = "done", !.ret = "false", !.ok = "none",
                                !.is_connected = IF raises THEN FALSE ELSE @]
    /\ UNCHANGED <<now, unhealthy>>

HeartbeatTimeouts == {0, 20}

NextHealth ==
    \/ HealthTick
    \/ HealthConnect
    \/ ListenConsumes
    \/ DrainConsumes
    \/ CheckHealth
    \/ HealthClose
    \/ \E T \in HeartbeatTimeouts : WaitForHeartbeat(T)
    \/ \E type \in EventTypes, data \in {"empty", "text"} : HeartbeatEvent(type, data)
    \/ \E raises \in BOOLEAN : HeartbeatStreamStops(raises)

SpecHealth == InitHealth /\ [][NextHealth]_vars

\* Time passes.
SpecHealthFair == SpecHealth /\ WF_vars(HealthTick)

----------------------------------------------------------------------------
(* Properties *)

\* An operation has ended in the step that led here.
HasEnded == last.out.st # "none"

\* The operation that ended got its Response from the queue.
FromQueue == HasEnded /\ last.at \in {"wait", "check"} /\ last.exc = NoExc

\* The ids of the Responses that can still reach a waiter: owed by the
\* server, on a stream, in the queue, or set aside by a waiter.
HeldIds ==
    {o.id : o \in owed}
    \cup UNION {{e.resp.id : e \in Range(streams[s])} : s \in Sessions}
    \cup {r.id : r \in Range(response_queue)}
    \cup UNION {{r.id : r \in Range(task[t].pending)} : t \in Tasks}

\* C1: with call_tool and list_tools invocations running concurrently and
\* their Responses arriving over the stream in any order, an operation that
\* returns a Response from the queue returns the one that carries its own
\* request id, that Response is held nowhere any more (no second waiter can
\* be given it), and the outcome of a call_tool names the tool it was
\* invoked with.
C1_OwnResponseOnly ==
    /\ FromQueue => /\ last.out.rid = last.id
                    /\ last.out.rid \notin HeldIds
    /\ (HasEnded /\ last.op = "call") => last.out.tool = last.arg

\* Two calls of different tools wait at once; the Response of the other call
\* came first and was set aside by the call that now returns its own.
C1_Witness ==
    /\ FromQueue
    /\ last.op = "call"
    /\ last.at = "check"
    /\ last.out.st = "ok"
    /\ \E t \in Callers :
          /\ task[t].op = "call" /\ Waiting(t) /\ task[t].arg # last.arg
          /\ task[t].id \in {r.id : r \in Range(response_queue)}

\* C2: when the timeout given to call_tool expires while the call is
\* suspended in the wait for its Response, every Response the call had taken
\* from the queue and set aside is back in the queue: none is dropped.
C2_CallTimeoutRequeues ==
    (HasEnded /\ last.op = "call" /\ last.exc = CallTimeout
        /\ last.at \in {"wait", "check"})
    => last.dropped = {}

\* C3: whenever _wait_for_sse_response ends with its timeout failure, every
\* Response it had set aside has been put back into the queue first.
C3_WaitTimeoutRequeues ==
    (HasEnded /\ last.exc = WaitTimeout) => last.dropped = {}

\* C4: a Response that the drain task queued before any waiter for its id
\* was waiting is not lost: no waiter that took it from the queue and set it
\* aside ends without putting it back.
C4_EarlyResponseKept ==
    HasEnded => \A r \in last.dropped : ~r.early

\* C5: across connect, list_tools, call_tool and close, close followed by a
\* new connect included, every id handed out is greater than all ids handed
\* out before it, and a request in flight carries an id that was handed out
\* to it alone.
C5_IdsIncrease ==
    /\ \A i, j \in 1..Len(allocated) : i < j => allocated[i] < allocated[j]
    /\ \A t \in Tasks : task[t].id # 0 => task[t].id \in Range(allocated)
    /\ \A t, u \in Tasks : (t # u /\ task[t].id # 0) => task[t].id # task[u].id

\* The first session was closed, a second connect succeeded, and a call_tool
\* is in flight on the new session with the third id.
C5_Witness ==
    /\ nsess = 2
    /\ alive = {2}
    /\ initialized
    /\ Len(allocated) = 3
    /\ \E t \in Callers : task[t].op = "call" /\ task[t].id = allocated[3]

\* C6: call_tool never raises, and whenever it fails (not connected, HTTP
\* error status, transport exception, timeout, JSON-RPC error, undecodable
\* result) its outcome has success false, the name of the invoked tool and
\* an error message that is a non-empty text.
C6_FailureIsReported ==
    (HasEnded /\ last.op = "call") =>
        /\ last.out.st \in {"ok", "fail"}
        /\ last.out.st = "fail" =>
              /\ last.out.tool = last.arg
              /\ \E e \in last.out.error : e # <<>>

\* The message has no character that repr writes differently.
Plain(msg) == \A i \in 1..Len(msg) : msg[i] \notin {"NL", "BS"}

C8_FailedConnectDisconnects ==
    (HasEnded /\ last.op = "connect" /\ last.out.st = "false") =>
        /\ sse_client = "none"
        /\ cur = 0
        /\ listener_task = 0
        /\ drains = {}
        /\ ~initialized

\* C9: neither connect nor list_tools ends by raising: a JSON-RPC error
\* Response, a timeout of the wait, an HTTP error status or a client that is
\* not connected is reported by the value returned.
C9_NoExceptionEscapes ==
    (HasEnded /\ last.op \in {"connect", "list"}) => last.out.st # "raised"

\* C10: a list_tools(use_cache=True) that returns directly after another one
\* returned (no list_tools ended in between, no close) has sent no request
\* and returns the same list; list_tools(use_cache=False) always sends a
\* request.
C10_CacheLaw ==
    /\ (HasEnded /\ last.op = "list" /\ last.arg = "cache"
            /\ last.out.st = "ret" /\ last.prev # NoList)
       => (~last.out.sent /\ last.out.val = last.prev)
    /\ (HasEnded /\ last.op = "list" /\ last.arg = "nocache") => last.out.sent

\* One step seen from the request of task t: it leaves the POST.
C11_Step(t) ==
    /\ (task[t].pc = "post" /\ task'[t].pc # "post") =>
          \/ /\ task'[t].pc = "posted"
             /\ response_queue' = response_queue
          \/ /\ task'[t].pc = "notify"
             /\ response_queue' = response_queue
          \/ /\ task'[t].pc = "idle"
             /\ last'.at = "post"
             /\ last'.id = task[t].id
             /\ response_queue' = response_queue
    /\ (~Waiting(t) /\ Waiting(t)') => task[t].pc = "posted"
    /\ (task[t].pc = "posted" /\ task'[t].pc # "posted") =>
          (task'[t].pc = "wait" \/ (task'[t].pc = "idle" /\ last'.exc = CallTimeout))

\* C11: the POST result decides the delivery mode.  A request that ends at
\* the POST (a 200 body taken as the Response, or a failure such as an HTTP
\* error status) leaves the queue unread; a wait on the queue starts only
\* after the server accepted the request without a body (202, or 200 with an
\* empty body), and then it does start unless the call's timeout ends it; an
\* HTTP error status ends the operation at the POST.
C11_DeliveryMode ==
    [][/\ \A t \in Tasks : C11_Step(t)
       /\ (last'.out.st # "none" /\ last'.exc.cls = "HTTPStatusError")
             => last'.at = "post"]_vars

\* A 200 body is taken as the Response of one request while the queue holds
\* a Response and another request waits on it.
C11_Witness ==
    /\ HasEnded
    /\ last.at = "post"
    /\ last.exc = NoExc
    /\ last.out.st = "ok"
    /\ response_queue # <<>>
    /\ \E t \in Callers : Waiting(t)

\* The bound the caller asked for: T, or 30 s when none was given.
AskedBound(T) == IF T = 0 THEN DefaultWait ELSE T

\* C12: the wait of call_tool(name, args, timeout=T) is bounded by T counted
\* from the start of the wait (30 s when no timeout is given): a timeout is
\* not reported from the wait before that time has passed since the wait
\* began, and the wait does not last longer.
C12_WaitBoundedByT ==
    /\ (timed.out = "timeout" /\ timed.at = "wait")
          => timed.end - timed.w0 >= AskedBound(timed.T)
    /\ timed.pc = "wait" => now - timed.w0 <= AskedBound(timed.T)

\* C13: on a new client with a server that answers every request with a
\* result, the first connect sends initialize with id 1 and returns True
\* with the client initialized, and the first call_tool after it sends its
\* request with id 2 and returns success with the payload of the Response
\* for id 2.
C13_InitThenCall ==
    /\ (HasEnded /\ last.op = "connect" /\ nsess = 1) =>
          /\ last.id = 1
          /\ last.out.st = "true"
          /\ initialized
    /\ (HasEnded /\ last.op = "call" /\ Len(allocated) = 2) =>
          /\ last.id = 2
          /\ last.out.st = "ok"
          /\ last.out.rid = 2
          /\ last.out.val = GoodBody[1]

\* The first call_tool after the first connect has returned the Response
\* that came over the stream.
C13_Witness ==
    /\ FromQueue
    /\ last.op = "call"
    /\ allocated = <<1, 2>>
    /\ last.out.st = "ok"

\* C14: a call_tool that is waiting for its Response when close() runs on
\* the client ends with a not-connected failure: once close() has returned,
\* no call that was sent on a session of the client is left waiting until a
\* timeout, and on the closed client a call does not end from the wait with
\* anything but the not-connected failure.
C14_InFlightFailsOnClose ==
    /\ (HasEnded /\ last.op = "close") =>
          \A t \in Callers : ~(Waiting(t) /\ task[t].sess # 0)
    /\ (HasEnded /\ last.op = "call" /\ last.at \in {"wait", "check"}
            /\ sse_client = "none")
          => last.exc = NotConnected

\* C15: a call_tool made while the client holds no transport (before a
\* connect() began, or after close() dropped it) ends at once with
\* success=false and the text "Not connected", for the tool that was asked;
\* no request socket is created, nothing is POSTed and the server sees
\* nothing.
CallBegins ==
    /\ allocated' # allocated
    /\ \/ last'.op = "call"
       \/ \E t \in Callers : task'[t] # task[t] /\ task'[t].op = "call"

C15_NotConnectedCall ==
    [][(sse_client = "none" /\ CallBegins) =>
          /\ last'.op = "call" /\ last'.at = "idle"
          /\ last'.out.st = "fail"
          /\ last'.out.error = {<<"Not connected">>}
          /\ last'.out.tool = last'.arg
          /\ task' = task
          /\ http_client' = http_client
          /\ server' = server]_vars

\* a call refused after close(), and one refused before any connect()
C15_Witness ==
    /\ HasEnded /\ last.op = "call" /\ last.at = "idle"
    /\ last.out.error = {<<"Not connected">>}
    /\ nsess >= 1 /\ sse_client = "none"

\* C16: when close() has returned, the client is not initialized, holds no
\* transport, no request socket and no drain task, and its tool cache and
\* its response queue are empty.
Released ==
    /\ ~initialized
    /\ sse_client = "none"
    /\ ~http_client
    /\ listener_task = 0
    /\ tools_cache = "None"
    /\ response_queue = <<>>

C16_CloseReleasesAll == (HasEnded /\ last.op = "close") => Released

\* The second half of C16: a step of close() on a client that holds nothing
\* changes none of the client's fields, and close() ends without an exception.
C16_CloseIdempotent ==
    [][(/\ Released
        /\ task'[Life] # task[Life]
        /\ (task[Life].op = "close" \/ task'[Life].op = "close")) =>
          /\ Released'
          /\ request_id' = request_id
          /\ (HasEnded' /\ last'.op = "close") => last'.exc = NoExc]_vars

\* C17: the delay slept before the k-th retry of connect_with_retry is
\* min(base * multiplier^(k-1), max) for base <= max and multiplier >= 1, so the
\* delays never decrease; with base 1, multiplier 2 and max 10 they are
\* 1, 2, 4, 8, 10, 10.
RECURSIVE Pow(_, _)
Pow(m, k) == IF k = 0 THEN 1 ELSE m * Pow(m, k - 1)

C17_Backoff ==
    /\ retry.base <= retry.max =>
          /\ \A k \in 1..Len(retry.slept) :
                retry.slept[k] = Min(retry.base * Pow(retry.mult, k - 1), retry.max)
          /\ \A k \in 1..(Len(retry.slept) - 1) :
                retry.slept[k] <= retry.slept[k + 1]
    /\ (retry.base = 1 /\ retry.mult = 2 /\ retry.max = 10) =>
          retry.slept = SubSeq(<<1, 2, 4, 8, 10, 10>>, 1, Len(retry.slept))
    /\ Len(retry.slept) = retry.reconnect_count - retry.before
    /\ Len(retry.slept) <= retry.max_retries

C17_Witness ==
    /\ retry.base = 1 /\ retry.mult = 2 /\ retry.max = 10
    /\ retry.slept = <<1, 2, 4, 8, 10, 10>>
    /\ retry.ret = "false"

\* C18: SSEClient.connect never raises; when the socket cannot be opened or
\* the connection attempt times out it returns False, and the transport then
\* is not connected and holds no session, stream or connection info.
C18_ConnectNeverRaises ==
    /\ sse.ret # "raised"
    /\ (sse.op = "connect" /\ sse.why \in {"open_failed", "open_timeout"}) =>
          /\ sse.ret = "false"
          /\ ~sse.is_connected
          /\ sse.info = "None"
          /\ ~sse.session /\ ~sse.event_source

\* a connect that timed out after an earlier session had been opened
C18_Witness ==
    /\ sse.op = "connect" /\ sse.why = "open_timeout" /\ sse.ret = "false"
    /\ sse.events > 0

\* C19: when SSEClient.close returns, from whatever state it was called in,
\* the transport is not connected, holds no stream and no socket, and has no
\* connection info (so no session id); on a transport that is already in
\* that state close changes nothing.
SseReleased(s) ==
    /\ ~s.is_connected
    /\ ~s.event_source
    /\ ~s.session
    /\ s.info = "None"

C19_CloseClears ==
    [][(sse.pc = "idle" /\ sse'.pc = "idle" /\ sse'.op = "close") =>
          /\ SseReleased(sse')
          /\ message_endpoint(sse') = <<"message_url">>
          /\ SseReleased(sse) =>
                [sse' EXCEPT !.op = sse.op] = sse]_vars

\* closed after a session with connection info had been opened
C19_Witness ==
    /\ sse.op = "close" /\ sse.why = "endpoint" /\ sse.ret = "true"
    /\ SseReleased(sse)

\* C20: when the stream is open and the connect deadline passes without an
\* endpoint event, connect returns True with no connection info, and the
\* message endpoint is the configured message URL.
C20_EndpointlessAccepted ==
    (sse.op = "connect" /\ sse.why = "deadline") =>
        /\ sse.ret = "true"
        /\ sse.is_connected
        /\ sse.info = "None"
        /\ message_endpoint(sse) = <<"message_url">>

\* C21: when the stream raises under listen_with_reconnect and a following
\* connect() succeeds, the consumer gets no exception and goes on with the
\* events of the new stream: the generator raises only when every attempt
\* of its last connect_with_retry failed; while it iterates, the transport is
\* connected with the session of its newest stream; the events it yields
\* come stream after stream, each stream's events once and in order.
C21_Resubscribes ==
    /\ lwr.out = "raised" =>
          (lwr.attempts = lwr.max_retries /\ ~lwr.is_connected)
    /\ lwr.pc = "listen" =>
          (lwr.is_connected /\ lwr.session = lwr.nstreams /\ lwr.stream = lwr.nstreams)
    /\ \A k \in 1..Len(lwr.yielded) :
          /\ lwr.yielded[k][2] = 1 \/ (k > 1 /\ lwr.yielded[k - 1] =
                                        <<lwr.yielded[k][1], lwr.yielded[k][2] - 1>>)
          /\ k > 1 => lwr.yielded[k - 1][1] <= lwr.yielded[k][1]
          /\ \A j \in 1..(k - 1) : lwr.yielded[j] # lwr.yielded[k]

\* events of a first stream, a lost stream, then events of a second stream
C21_Witness ==
    /\ lwr.lost >= 1 /\ lwr.out = "none" /\ lwr.pc = "listen"
    /\ \E j, k \in 1..Len(lwr.yielded) :
          j < k /\ lwr.yielded[j][1] < lwr.yielded[k][1]

\* C22: when every connect() fails, listen_with_reconnect raises after one
\* budget of attempts (max_retries + 1) since it was started or since it
\* lost its stream.
C22_OneBudget ==
    lwr.out = "raised" => lwr.total = lwr.max_retries + 1

\* C23: concurrent call_tool invocations whose Responses have all been
\* deposited return them without waiting for a deadline: when every waiting
\* call's Response is in the queue or set aside by a waiter, the queue is not
\* empty, so a waiter can go on; no call is left to time out with its
\* Response set aside by another waiter.
Deposited(id) ==
    \/ \E r \in Range(response_queue) : r.id = id
    \/ \E u \in Callers : Waiting(u) /\ \E r \in Range(task[u].pending) : r.id = id

C23_AllServed ==
    LET W == {t \in Callers : Waiting(t)} IN
    (/\ W # {}
     /\ \A t \in W : task[t].op = "call" /\ Deposited(task[t].id)) =>
        response_queue # <<>>

\* C24: when _wait_for_sse_response returns its own Response, the Responses
\* left in the queue are in the order of their arrival, the re-inserted ones
\* and the ones that were queued behind the match alike.
C24_FifoAfterMatch ==
    waiter.ret = "response" =>
        \A i, j \in 1..Len(waiter.queue) :
            i < j => waiter.queue[i].id < waiter.queue[j].id

\* C25: an event with malformed data never stops the drain loop: the loop
\* stops only when the stream ends or raises or the task is cancelled, and
\* every message event that carries a Response is in the queue, whatever
\* came before it, the entries of the queue being in arrival order.
Malformed == {"text", "scalar", "badobject"}

C25_DrainSurvives ==
    /\ listen.why # "decode"
    /\ \A n \in 1..Len(listen.seen) :
          (listen.seen[n].type = "message" /\ listen.seen[n].data = "response") =>
              \E i \in 1..Len(listen.queue) : listen.queue[i] = n
    /\ \A i, j \in 1..Len(listen.queue) : i < j => listen.queue[i] < listen.queue[j]

\* a Response deposited right after an event with malformed data
C25_Witness ==
    /\ listen.pc = "run"
    /\ \E n \in 2..Len(listen.seen) :
          /\ listen.seen[n - 1].data \in Malformed
          /\ listen.seen[n - 1].type # "endpoint"
          /\ listen.seen[n].type = "message" /\ listen.seen[n].data = "response"
          /\ \E i \in 1..Len(listen.queue) : listen.queue[i] = n

\* C26: every entry of the queue was decoded from a message event; an
\* endpoint event or a heartbeat event puts nothing in the queue.
C26_MessageEventsOnly ==
    \A i \in 1..Len(listen.queue) : listen.seen[listen.queue[i]].type = "message"

\* C27: between the connect() and close() calls of one client, at most one
\* drain task is running, and it reads the stream of the client's current
\* transport.
C27_OneDrainTask ==
    task[Life].pc = "idle" =>
        /\ Cardinality(drains) <= 1
        /\ drains \subseteq {cur} \ {0}

\* C28: the handshake of connect().  When the initialize request is sent,
\* the drain task of the new session has been started.  The initialized
\* notification is sent only by a connect() whose initialize request got a
\* Response, and an error Response ends connect() without it.  The
\* notification takes no request id and is not waited on: after it connect()
\* returns True and the client is initialized, whether or not the
\* notification could be sent.  The client becomes initialized at no other
\* step.
C28_Step ==
    /\ (task[Life].pc # "post" /\ task'[Life].pc = "post") =>
          (cur' # 0 /\ listener_task' = cur' /\ cur' \in drains')
    /\ (task[Life].pc # "notify" /\ task'[Life].pc = "notify") =>
          /\ task[Life].op = "connect"
          /\ task[Life].pc \in {"post", "wait", "check"}
          /\ initialized' = initialized
    /\ (HasEnded' /\ last'.op = "connect" /\ last'.exc = InitializeFailed) =>
          task[Life].pc \in {"post", "wait", "check"}
    /\ (task[Life].pc = "notify" /\ task'[Life].pc # "notify") =>
          /\ task'[Life].pc = "idle"
          /\ last'.op = "connect" /\ last'.out.st = "true" /\ last'.exc = NoExc
          /\ initialized'
          /\ request_id' = request_id
    /\ (~initialized /\ initialized') => task[Life].pc = "notify"

C28_HandshakeOrder == [][C28_Step]_vars

C28_Witness ==
    /\ HasEnded /\ last.op = "connect" /\ last.at = "notify"
    /\ last.out.st = "true" /\ initialized /\ cur \in drains

\* C29: close() tears down in a fixed order.  Its first step cancels the
\* drain task of the client, which has ended before anything else is
\* touched; its second step closes the request socket, with the transport
\* still open and the cache and the initialized flag as they were; its last
\* step closes the transport and then clears the flag, the cache and the
\* queue.  No drain task is running on a transport that has been closed.
C29_Step ==
    /\ (task[Life].pc = "idle" /\ task'[Life].pc = "cl_http") =>
          /\ listener_task' = 0 /\ listener_task \notin drains'
          /\ http_client' = http_client /\ sse_client' = sse_client
          /\ alive' = alive
          /\ initialized' = initialized /\ tools_cache' = tools_cache
    /\ (task[Life].pc = "cl_http" /\ task'[Life].pc # "cl_http") =>
          /\ task'[Life].pc = "cl_sse"
          /\ listener_task = 0
          /\ ~http_client'
          /\ sse_client' = sse_client /\ alive' = alive
          /\ initialized' = initialized /\ tools_cache' = tools_cache
    /\ (task[Life].pc = "cl_sse" /\ task'[Life].pc # "cl_sse") =>
          /\ task'[Life].pc = "idle" /\ last'.op = "close"
          /\ listener_task = 0
          /\ sse_client' = "none" /\ cur \notin alive'
          /\ ~initialized' /\ tools_cache' = "None" /\ response_queue' = <<>>
    /\ drains' \subseteq alive'

C29_CloseOrder == [][C29_Step]_vars

\* a close() of a client whose session had a drain task
C29_Witness ==
    /\ HasEnded /\ last.op = "close"
    /\ nsess = 1 /\ alive = {} /\ drains = {}

\* C30: once its POST has completed, a call_tool does not hang, whether or not
\* a Response ever arrives: the wait never lasts beyond its deadline, and a
\* call that is waiting (its deadline within the time followed) returns an
\* outcome.
C30_CallReturns ==
    /\ [](timed.pc = "wait" => now - timed.w0 <= DefaultWait)
    /\ (timed.pc = "wait" /\ timed.w0 + DefaultWait <= MaxTime)
           ~> (timed.pc = "idle" /\ timed.out # "none")

\* no Response ever came: the call ended in the wait, at the wait's deadline
C30_Witness ==
    /\ timed.pc = "idle" /\ timed.out = "timeout" /\ timed.at = "wait"
    /\ timed.end - timed.w0 = DefaultWait

\* C31: in every reachable state, a client that is initialized has an SSE
\* client set and that SSE client reports connected.
C31_InitializedIsConnected ==
    initialized => sse_client = "connected"

\* C32: between a successful connect and the next close the connection
\* info (session id and message endpoint) does not change under any
\* operation, and connect() on a transport that reports connected returns
\* True, opens no stream and leaves the connection info as it is.
C32_SessionImmutable ==
    [][/\ sse.info # "None" => sse'.info \in {sse.info, "None"}
       /\ (sse.pc = "idle" /\ sse.is_connected /\ sse'.op = "connect")
            => /\ sse'.ret = "true" /\ sse'.pc = "idle"
               /\ sse'.info = sse.info
               /\ sse'.session = sse.session
               /\ sse'.event_source = sse.event_source
               /\ sse'.events = sse.events]_vars

\* C33 as stated: connect_with_retry makes at most N connection attempts in
\* all, N being max_retries.
C33_AtMostNAttempts ==
    retry.pc = "done" => retry.attempt + 1 <= retry.max_retries

\* C33: connect_with_retry makes at most max_retries + 1 connection
\* attempts in all (the first one and at most max_retries retries), stops at
\* the first one that succeeds, and returns False only after all of them
\* failed; reconnect_count grows by exactly the number of retries of the
\* call, stays as it was when the first attempt succeeds, and never goes
\* down.
C33_RetryBudget ==
    /\ [](/\ retry.attempt <= retry.max_retries
          /\ retry.pc \in {"connect", "done"} =>
                retry.reconnect_count = retry.before + retry.attempt
          /\ (retry.pc = "done" /\ retry.ret = "false") =>
                retry.attempt = retry.max_retries
          /\ (retry.pc = "done" /\ retry.ret = "true" /\ retry.attempt = 0) =>
                retry.reconnect_count = retry.before)
    /\ [][/\ retry'.reconnect_count >= retry.reconnect_count
          /\ retry.pc = "done" => retry' = retry
          /\ retry'.ret = "true" => (retry.pc = "connect" /\ retry'.pc = "done")]_vars

\* all four attempts of max_retries = 3 failed, in a call that found the
\* counter at 3
C33_Witness ==
    /\ retry.pc = "done" /\ retry.ret = "false"
    /\ retry.max_retries = 3 /\ retry.attempt = 3
    /\ retry.before = 3 /\ retry.reconnect_count = 6

\* C34: for every configuration, a base delay larger than the maximum
\* included, every delay slept is at most backoff_max.
C34_DelayCapped ==
    \A k \in 1..Len(retry.slept) : retry.slept[k] <= retry.max

\* C35: call_tool_sync on a client that is not initialized runs connect()
\* before the call; when that connect fails it returns success = false with
\* "Failed to connect to MCP server" and sends no tools/call request; on an
\* initialized client it sends the call without connecting again; after a
\* successful call the client is initialized.
C35_ConnectOnDemand ==
    /\ [](/\ sync.pc # "none" => sync.connects = (IF sync.was THEN 0 ELSE 1)
          /\ sync.sent > 0 => (sync.was \/ sync.connects = 1)
          /\ sync.error = "Failed to connect to MCP server" =>
                /\ sync.ret = "failure" /\ sync.sent = 0
                /\ ~sync.was /\ sync.connects = 1
          /\ (sync.pc = "done" /\ sync.was) => (sync.sent = 1 /\ sync.connects = 0)
          /\ sync.ret = "success" => (initialized /\ sync.sent = 1))
    /\ [][/\ sync'.sent > sync.sent =>
                (initialized /\ sync.pc = "call" /\ sync'.connects = sync.connects)
          /\ (sync.pc = "connect" /\ sync'.pc = "done") =>
                sync'.error = "Failed to connect to MCP server"]_vars

\* the third call: the first connected and succeeded, close() followed, the
\* second failed to connect, and this one connected and succeeded
C35_Witness ==
    /\ sync.calls = 3 /\ sync.ret = "success" /\ ~sync.was
    /\ sync.connects = 1 /\ sync.sent = 1 /\ initialized

\* an initialized client: the call goes out, no connect
C35_WitnessInitialized ==
    /\ sync.pc = "done" /\ sync.was /\ sync.connects = 0 /\ sync.sent = 1

\* C36: an event that is consumed updates the time since the last event,
\* whichever consumer reads it (a consumer of listen() or the drain task of
\* MCPClient); a health check on a connected transport whose events were
\* consumed less than 60 s apart is true, and it is false when the transport
\* is not connected or no event was consumed within 60 s.
C36_HealthFollowsEvents ==
    /\ health.last_event_time = health.consumed
    /\ health.ok # "none" =>
          /\ ~health.is_connected => health.ok = "false"
          /\ (health.is_connected /\ \E e \in health.consumed : now - e < HealthWindow) =>
                health.ok = "true"
          /\ (health.is_connected /\ \E e \in health.consumed : now - e > HealthWindow) =>
                health.ok = "false"

\* C36, the health check alone: a connected transport whose last event was
\* consumed less than 60 s ago is healthy.
C36_HealthyWhileConsumed ==
    (health.ok # "none" /\ health.is_connected
        /\ \E e \in health.consumed : now - e < HealthWindow) => health.ok = "true"

\* C38: wait_for_heartbeat(timeout) terminates: it returns True when a
\* heartbeat is received and False once the timeout has passed without one,
\* also when the stream delivers no event at all.
C38_HeartbeatTerminates ==
    (health.hb = "waiting") ~> (health.hb = "done")

\* C37: the transport buffers nothing but its liveness bookkeeping: after
\* any number of events delivered to a consumer of listen, the number of
\* events retained inside the transport is zero.
C37_NothingRetained ==
    Len(lwr.message_queue) = 0

\* C39: after close() and a new connect() on the same client, a Response
\* left over from the earlier session is never returned as the result of a
\* request of the new session: the Response a waiter returns carries the
\* waiter's own request id, and that id was handed out once, to this
\* request, so it answers no request of an earlier session.
C39_Step ==
    \A t \in Tasks :
        (/\ Waiting(t)
         /\ response_queue # <<>>
         /\ task'[t].pc \notin {"wait", "check"}
         /\ response_queue' = Tail(response_queue) \o task[t].pending)
        => /\ Head(response_queue).id = task[t].id
           /\ Cardinality({i \in 1..Len(allocated) : allocated[i] = task[t].id}) = 1

C39_NoStaleResponse == [][C39_Step]_vars

\* The second session, after the first was closed: the waiter of its
\* initialize request (the third id) has taken from the queue the Response
\* to the initialize request of the first session, which a waiter of that
\* session had set aside and put back after close() had cleared the queue,
\* and has set it aside.
C39_Witness ==
    /\ nsess = 2 /\ cur = 2 /\ alive = {2}
    /\ Len(allocated) = 3
    /\ task[Life].op = "connect" /\ Waiting(Life)
    /\ task[Life].id = allocated[3]
    /\ \E i \in 1..Len(task[Life].pending) :
          task[Life].pending[i].id = allocated[1]

\* C40: the message endpoint used for POSTs is always absolute: an absolute
\* endpoint from the server is used as it is, a relative one (with or
\* without a leading slash) is resolved against the base URL, and with no
\* endpoint the configured message URL is used.
C40_EndpointAbsolute ==
    /\ sse.info = "abs" => message_endpoint(sse) = <<"endpoint">>
    /\ sse.info \in {"rel", "bare"} => Head(message_endpoint(sse)) = "base_url"
    /\ sse.info \in {"None", "nouri"} => message_endpoint(sse) = <<"message_url">>

====
